---- MODULE Spec2Model ----
(***************************************************************************)
(* Product catalogue front end: the in-memory ProductMockService (the      *)
(* "Directory Engine"), its dataset mockProducts, the products$ and        *)
(* loading$ subjects, and the calls of its five operations; and            *)
(* ProductApiService (the "Remote Client Adapter"), its own products$      *)
(* subject and the HTTP requests of its five operations;                   *)
(* ProductListComponent with its subscriptions to the service; and         *)
(* LoadingService with HttpRequestInterceptor.                             *)
(*                                                                         *)
(* Conventions of the translation                                          *)
(*  - a JavaScript string whose characters matter (name, description,      *)
(*    search) is a sequence of one-character strings; an opaque string     *)
(*    (category, imageUrl, message) is a TLA+ string;                      *)
(*  - a JavaScript object is a function from its own keys to their values: *)
(*    a key the object does not have is outside DOMAIN, so `x === undefined`*)
(*    is `"x" \notin DOMAIN o` and the spread {...a, ...b} is Spread(a, b); *)
(*  - a price is a whole number of cents (3499.90 is 349990);              *)
(*  - a Date is [d |-> days since 2024-01-01, ms |-> millisecond of that   *)
(*    UTC day], compared with DateLeq;                                     *)
(*  - an operation is two steps, as in the code: the call (everything the  *)
(*    method does before it returns its Observable) and the completion     *)
(*    (the tap/map callbacks that run when delay(API_DELAY) elapses).      *)
(***************************************************************************)
EXTENDS Integers, Sequences, FiniteSets, TLC

VARIABLES
    mockProducts,     \* the in-memory dataset (a JavaScript array, holes included)
    productsSubject,  \* current value of products$
    loadingSubject,   \* current value of loading$
    nextId,           \* the id counter
    pending,          \* the operations whose delay has not elapsed yet
    now,              \* the wall clock read by `new Date()`
    nCalls,           \* number of calls issued so far
    last,             \* the step just taken: operation, phase, input, outcome
    apiProductsSubject, \* ProductApiService: current value of its products$
    inFlight,         \* ProductApiService: the calls awaiting an HTTP response
    httpSent,         \* HTTP requests sent so far, per method
    nApiCalls,        \* number of calls of ProductApiService issued so far
    apiLast,          \* the step of ProductApiService just taken
    listProducts,     \* ProductListComponent.products: the rows displayed
    listTotalItems,   \* ProductListComponent.totalItems: the total displayed
    listLoading,      \* ProductListComponent.loading
    currentPage,      \* ProductListComponent: the page selected
    filterForm,       \* ProductListComponent: value of the filter form
    debouncing,       \* a change of the form awaits the end of debounceTime
    requests,         \* the component's subscriptions awaiting the service
    notifications,    \* what PoNotificationService was asked to show
    nListCalls,       \* calls of the service issued by the component
    lastLoad,         \* the most recent loadProducts: its number, the page it got
    listLast,         \* the step of the component just taken
    requestCount,     \* LoadingService: requests counted as active
    isLoadingSubject, \* LoadingService: current value of isLoading$
    intercepted,      \* the requests inside HttpRequestInterceptor
    nIntercepted,     \* requests that have entered the interceptor
    handled,          \* requests the interceptor passed on to the next handler
    icLast            \* the step of the interceptor just taken

mockVars == <<mockProducts, productsSubject, loadingSubject, nextId, pending, now, nCalls, last>>
apiVars == <<apiProductsSubject, inFlight, httpSent, nApiCalls, apiLast>>
listVars == <<listProducts, listTotalItems, listLoading, currentPage, filterForm, debouncing, requests,
              notifications, nListCalls, lastLoad, listLast>>
loadingVars == <<requestCount, isLoadingSubject, intercepted, nIntercepted, handled, icLast>>
vars == <<mockVars, apiVars, listVars, loadingVars>>

---------------------------------------------------------------------------
(* Bounds of the model *)

\* calls issued in one behaviour of Spec
MaxOps == 2
\* calls issued in one behaviour of SpecQuery and of SpecCreate
MaxQueryOps == 2
\* calls issued in one behaviour of SpecStale
MaxStaleOps == 4
\* calls issued in one behaviour of SpecApi
MaxApiOps == 2
\* calls issued in one behaviour of SpecIds
MaxIdOps == 3
\* calls issued in one behaviour of SpecCancel
MaxCancelOps == 2
\* calls of the service issued by the user in one behaviour of SpecList
MaxListOps == 3
\* requests entering the interceptor in one behaviour of SpecIntercept
MaxIntercepted == 2
\* calls made on each service in one behaviour of SpecPair
MaxPairOps == 2
\* day (since 2024-01-01) on which the service is constructed
StartDay == 300

---------------------------------------------------------------------------
(* Program constants *)

API_DELAY == 300
FirstId == 9
MinNameLength == 3
MaxNameLength == 200
MaxPrice == 99999999
MaxDescriptionLength == 1000
DefaultPage == 1
DefaultPageSize == 10
MsPerDay == 24 * 60 * 60 * 1000

validCategories == <<"ELETRONICOS", "ROUPAS", "LIVROS", "CASA", "ESPORTES", "OUTROS">>

---------------------------------------------------------------------------
(* JavaScript values *)

Min(S) == CHOOSE x \in S : \A y \in S : x <= y
Max(S) == CHOOSE x \in S : \A y \in S : x >= y

Has(o, f) == f \in DOMAIN o

\* {...a, ...b}: the keys of both, b's value where both have the key
Spread(a, b) == [f \in DOMAIN a \cup DOMAIN b |-> IF f \in DOMAIN b THEN b[f] ELSE a[f]]

\* a hole of a sparse array (read as undefined)
Hole == [hole |-> TRUE]
IsHole(p) == Has(p, "hole")

Uppers == <<"A", "B", "C", "D", "E", "F", "G", "H", "I", "J", "K", "L", "M",
            "N", "O", "P", "Q", "R", "S", "T", "U", "V", "W", "X", "Y", "Z">>
Lowers == <<"a", "b", "c", "d", "e", "f", "g", "h", "i", "j", "k", "l", "m",
            "n", "o", "p", "q", "r", "s", "t", "u", "v", "w", "x", "y", "z">>

toLowerChar(c) ==
    IF \E i \in DOMAIN Uppers : Uppers[i] = c
    THEN Lowers[CHOOSE i \in DOMAIN Uppers : Uppers[i] = c]
    ELSE c

\* String.prototype.toLowerCase
toLowerCase(s) == [i \in 1..Len(s) |-> toLowerChar(s[i])]

\* String.prototype.includes
includes(s, sub) ==
    \E i \in 0..(Len(s) - Len(sub)) : \A j \in 1..Len(sub) : s[i + j] = sub[j]

IsSpace(c) == c \in {" ", "\t", "\n"}

\* String.prototype.trim
trim(s) ==
    LET keep == {i \in 1..Len(s) : ~IsSpace(s[i])}
    IN IF keep = {} THEN <<>> ELSE SubSeq(s, Min(keep), Max(keep))

\* Array.prototype.includes on an array of opaque strings
InArray(arr, x) == \E i \in DOMAIN arr : arr[i] = x

\* Date comparison and arithmetic
DateLeq(a, b) == a.d < b.d \/ (a.d = b.d /\ a.ms <= b.ms)
DateLt(a, b) == DateLeq(a, b) /\ a # b
AddMs(t, k) ==
    IF t.ms + k >= MsPerDay
    THEN [d |-> t.d + 1, ms |-> t.ms + k - MsPerDay]
    ELSE [d |-> t.d, ms |-> t.ms + k]
DateMax(a, b) == IF DateLeq(a, b) THEN b ELSE a

\* faulty variant: Math.floor instead of Math.ceil
Floor(a, b) == a \div b

\* Math.ceil(a / b) for a >= 0, b >= 1
Ceil(a, b) == (a + b - 1) \div b

---------------------------------------------------------------------------
(* The seeded dataset *)

Seed1 ==
    [id |-> 1,
     name |-> <<"N", "o", "t", "e", "b", "o", "o", "k", " ", "D", "e", "l", "l", " ", "I", "n", "s", "p", "i", "r", "o", "n", " ", "1", "5">>,
     description |-> <<"N", "o", "t", "e", "b", "o", "o", "k", " ", "c", "o", "m", " ", "p", "r", "o", "c", "e", "s", "s", "a", "d", "o", "r", " ", "I", "n", "t", "e", "l", " ", "C", "o", "r", "e", " ", "i", "5", ",", " ", "8", "G", "B", " ", "R", "A", "M", ",", " ", "2", "5", "6", "G", "B", " ", "S", "S", "D">>,
     price |-> 349990,
     category |-> "ELETRONICOS",
     active |-> TRUE,
     imageUrl |-> "https://i.dell.com/is/image/DellContent/content/dam/ss2/product-images/dell-client-products/notebooks/inspiron-notebooks/15-3520/pdp/laptop-inspiron-15-3520-pdp-gallery-504x350-bk.psd?fmt=png-alpha&wid=570&hei=400",
     createdAt |-> [d |-> 14, ms |-> 37800000],
     updatedAt |-> [d |-> 293, ms |-> 53100000]]

Seed2 ==
    [id |-> 2,
     name |-> <<"M", "o", "u", "s", "e", " ", "L", "o", "g", "i", "t", "e", "c", "h", " ", "M", "X", " ", "M", "a", "s", "t", "e", "r", " ", "3">>,
     description |-> <<"M", "o", "u", "s", "e", " ", "s", "e", "m", " ", "f", "i", "o", " ", "e", "r", "g", "o", "n", "ô", "m", "i", "c", "o", " ", "c", "o", "m", " ", "s", "e", "n", "s", "o", "r", " ", "d", "e", " ", "a", "l", "t", "a", " ", "p", "r", "e", "c", "i", "s", "ã", "o">>,
     price |-> 44990,
     category |-> "ELETRONICOS",
     active |-> TRUE,
     imageUrl |-> "https://m.media-amazon.com/images/I/61+OT7FPABL.jpg",
     createdAt |-> [d |-> 40, ms |-> 33300000],
     updatedAt |-> [d |-> 291, ms |-> 58800000]]

Seed3 ==
    [id |-> 3,
     name |-> <<"T", "e", "c", "l", "a", "d", "o", " ", "M", "e", "c", "â", "n", "i", "c", "o", " ", "K", "e", "y", "c", "h", "r", "o", "n", " ", "K", "2">>,
     description |-> <<"T", "e", "c", "l", "a", "d", "o", " ", "m", "e", "c", "â", "n", "i", "c", "o", " ", "s", "e", "m", " ", "f", "i", "o", " ", "c", "o", "m", " ", "s", "w", "i", "t", "c", "h", "e", "s", " ", "R", "e", "d", ",", " ", "R", "G", "B">>,
     price |-> 65990,
     category |-> "ELETRONICOS",
     active |-> TRUE,
     imageUrl |-> "https://carrefourbr.vtexassets.com/arquivos/ids/198365397/image-0.jpg",
     createdAt |-> [d |-> 64, ms |-> 39600000],
     updatedAt |-> [d |-> 288, ms |-> 48600000]]

Seed4 ==
    [id |-> 4,
     name |-> <<"M", "o", "n", "i", "t", "o", "r", " ", "L", "G", " ", "U", "l", "t", "r", "a", "W", "i", "d", "e", " ", "2", "9", "\"">>,
     description |-> <<"M", "o", "n", "i", "t", "o", "r", " ", "I", "P", "S", " ", "2", "9", " ", "p", "o", "l", "e", "g", "a", "d", "a", "s", ",", " ", "r", "e", "s", "o", "l", "u", "ç", "ã", "o", " ", "2", "5", "6", "0", "x", "1", "0", "8", "0", ",", " ", "7", "5", "H", "z">>,
     price |-> 129990,
     category |-> "ELETRONICOS",
     active |-> TRUE,
     imageUrl |-> "https://m.media-amazon.com/images/I/51mHapX90SL._AC_UF894,1000_QL80_.jpg",
     createdAt |-> [d |-> 102, ms |-> 31500000],
     updatedAt |-> [d |-> 283, ms |-> 36900000]]

Seed5 ==
    [id |-> 5,
     name |-> <<"C", "a", "m", "i", "s", "e", "t", "a", " ", "N", "i", "k", "e", " ", "D", "r", "y", "-", "F", "i", "t">>,
     description |-> <<"C", "a", "m", "i", "s", "e", "t", "a", " ", "e", "s", "p", "o", "r", "t", "i", "v", "a", " ", "c", "o", "m", " ", "t", "e", "c", "n", "o", "l", "o", "g", "i", "a", " ", "d", "e", " ", "s", "e", "c", "a", "g", "e", "m", " ", "r", "á", "p", "i", "d", "a">>,
     price |-> 12990,
     category |-> "ROUPAS",
     active |-> TRUE,
     imageUrl |-> "https://cdn.awsli.com.br/2500x2500/1714/1714539/produto/301464319/e557ac303ce1294613d160a2305c4a7e-badvelksjs.jpeg",
     createdAt |-> [d |-> 140, ms |-> 55800000],
     updatedAt |-> [d |-> 278, ms |-> 61200000]]

Seed6 ==
    [id |-> 6,
     name |-> <<"L", "i", "v", "r", "o", ":", " ", "C", "l", "e", "a", "n", " ", "C", "o", "d", "e">>,
     description |-> <<"G", "u", "i", "a", " ", "e", "s", "s", "e", "n", "c", "i", "a", "l", " ", "s", "o", "b", "r", "e", " ", "b", "o", "a", "s", " ", "p", "r", "á", "t", "i", "c", "a", "s", " ", "d", "e", " ", "p", "r", "o", "g", "r", "a", "m", "a", "ç", "ã", "o", " ", "p", "o", "r", " ", "R", "o", "b", "e", "r", "t", " ", "C", ".", " ", "M", "a", "r", "t", "i", "n">>,
     price |-> 8990,
     category |-> "LIVROS",
     active |-> TRUE,
     imageUrl |-> "https://media.licdn.com/dms/image/v2/C4D12AQElMcNEch38WQ/article-cover_image-shrink_720_1280/article-cover_image-shrink_720_1280/0/1645152091261?e=2147483647&v=beta&t=rHdnB7tb0gw7fc-RNB1gFelNo8sdOXdg-bx0Cu0WHnk",
     createdAt |-> [d |-> 159, ms |-> 43200000],
     updatedAt |-> [d |-> 273, ms |-> 34200000]]

Seed7 ==
    [id |-> 7,
     name |-> <<"S", "o", "f", "á", " ", "R", "e", "t", "r", "á", "t", "i", "l", " ", "3", " ", "L", "u", "g", "a", "r", "e", "s">>,
     description |-> <<"S", "o", "f", "á", " ", "c", "o", "n", "f", "o", "r", "t", "á", "v", "e", "l", " ", "c", "o", "m", " ", "t", "e", "c", "i", "d", "o", " ", "s", "u", "e", "d", "e", ",", " ", "c", "o", "r", " ", "c", "i", "n", "z", "a">>,
     price |-> 249990,
     category |-> "CASA",
     active |-> TRUE,
     imageUrl |-> "https://www.camainbox.com.br/media/catalog/product/cache/0a0c65509d6052414e566f979b0217be/1/_/1_sofa_retratil_reclinavel_big_fresh_ambiente_azul_6.jpg",
     createdAt |-> [d |-> 196, ms |-> 51600000],
     updatedAt |-> [d |-> 268, ms |-> 42300000]]

Seed8 ==
    [id |-> 8,
     name |-> <<"B", "o", "l", "a", " ", "d", "e", " ", "F", "u", "t", "e", "b", "o", "l", " ", "A", "d", "i", "d", "a", "s">>,
     description |-> <<"B", "o", "l", "a", " ", "o", "f", "i", "c", "i", "a", "l", " ", "p", "a", "r", "a", " ", "c", "a", "m", "p", "o", ",", " ", "t", "a", "m", "a", "n", "h", "o", " ", "p", "a", "d", "r", "ã", "o">>,
     price |-> 19990,
     category |-> "ESPORTES",
     active |-> FALSE,
     imageUrl |-> "https://images.tcdn.com.br/img/img_prod/734952/bola_adidas_starlancer_unissex_vermelho_e_preto_9431_1_aa90e7bcd7ea97320c54071d8cffec5a.jpeg",
     createdAt |-> [d |-> 213, ms |-> 36000000],
     updatedAt |-> [d |-> 263, ms |-> 59400000]]
seedProducts == <<Seed1, Seed2, Seed3, Seed4, Seed5, Seed6, Seed7, Seed8>>

EmptyObject == [f \in {} |-> TRUE]

---------------------------------------------------------------------------
(* validateProductData *)

\* faulty variant: the length rules applied to the trimmed name
NameErrorsTrimmed(data, isUpdate) ==
    IF isUpdate /\ ~Has(data, "name") THEN <<>>
    ELSE IF ~Has(data, "name") \/ Len(data.name) = 0 \/ Len(trim(data.name)) = 0
         THEN <<"Name is required">>
    ELSE IF Len(trim(data.name)) < MinNameLength
         THEN <<"Name must be at least 3 characters">>
    ELSE IF Len(trim(data.name)) > MaxNameLength
         THEN <<"Name must not exceed 200 characters">>
    ELSE <<>>

NameErrors(data, isUpdate) ==
    IF isUpdate /\ ~Has(data, "name") THEN <<>>
    ELSE IF ~Has(data, "name") \/ Len(data.name) = 0 \/ Len(trim(data.name)) = 0
         THEN <<"Name is required">>
    ELSE IF Len(data.name) < MinNameLength
         THEN <<"Name must be at least 3 characters">>
    ELSE IF Len(data.name) > MaxNameLength
         THEN <<"Name must not exceed 200 characters">>
    ELSE <<>>

PriceErrors(data, isUpdate) ==
    IF isUpdate /\ ~Has(data, "price") THEN <<>>
    ELSE IF ~Has(data, "price") THEN <<"Price is required">>
    ELSE IF data.price < 0 THEN <<"Price must be greater than or equal to 0">>
    ELSE IF data.price > MaxPrice THEN <<"Price must not exceed 999999.99">>
    ELSE <<>>

CategoryErrors(data, isUpdate) ==
    IF isUpdate /\ ~Has(data, "category") THEN <<>>
    ELSE IF ~Has(data, "category") \/ data.category = "" THEN <<"Category is required">>
    ELSE IF ~InArray(validCategories, data.category)
         THEN <<"Category must be one of: ELETRONICOS, ROUPAS, LIVROS, CASA, ESPORTES, OUTROS">>
    ELSE <<>>

DescriptionErrors(data) ==
    IF Has(data, "description") /\ Len(data.description) # 0
       /\ Len(data.description) > MaxDescriptionLength
    THEN <<"Description must not exceed 1000 characters">>
    ELSE <<>>

\* faulty variant: validation stops at the first violated rule
validateFirstOnly(data, isUpdate) ==
    LET all == NameErrors(data, isUpdate) \o PriceErrors(data, isUpdate)
                   \o CategoryErrors(data, isUpdate) \o DescriptionErrors(data)
    IN IF Len(all) > 1 THEN <<all[1]>> ELSE all

\* the list of messages; the caller joins it with "; " into ApiError.details,
\* which is kept here as the list itself (no message contains "; ")
validateProductData(data, isUpdate) ==
    NameErrors(data, isUpdate) \o PriceErrors(data, isUpdate)
        \o CategoryErrors(data, isUpdate) \o DescriptionErrors(data)

---------------------------------------------------------------------------
(* Errors *)

\* createApiError (the timestamp is not modelled)
createApiError(statusCode, message, details) ==
    [kind |-> "ApiError", statusCode |-> statusCode, message |-> message,
     details |-> details, path |-> "/api/products"]

\* `throw new Error(message)`: no statusCode
PlainError(message) == [kind |-> "Error", message |-> message]

\* reading a property of undefined
TypeError == [kind |-> "TypeError"]

---------------------------------------------------------------------------
(* Arrays *)

HasHole(arr) == \E i \in DOMAIN arr : IsHole(arr[i])

\* Array.prototype.findIndex(p => p.id === id), 0-based, -1 when absent.
\* The callback reads p.id, so it throws on a hole met before a match.
findIndexThrows(arr, id) ==
    \E i \in DOMAIN arr :
        /\ IsHole(arr[i])
        /\ \A j \in 1..(i - 1) : arr[j].id # id

findIndex(arr, id) ==
    IF \E i \in DOMAIN arr : ~IsHole(arr[i]) /\ arr[i].id = id
    THEN Min({i \in DOMAIN arr : ~IsHole(arr[i]) /\ arr[i].id = id}) - 1
    ELSE -1

\* arr[index] = value, index 0-based; writing past the end leaves holes
ArraySet(arr, index, value) ==
    [i \in 1..Max({Len(arr), index + 1}) |->
        IF i = index + 1 THEN value
        ELSE IF i <= Len(arr) THEN arr[i]
        ELSE Hole]

\* arr.splice(index, 1), index 0-based and >= 0
Splice1(arr, index) ==
    IF index + 1 > Len(arr) THEN arr
    ELSE [i \in 1..(Len(arr) - 1) |-> IF i <= index THEN arr[i] ELSE arr[i + 1]]

\* arr.slice(start, end) for 0 <= start
Slice(arr, start, end) ==
    LET hi == IF end < Len(arr) THEN end ELSE Len(arr)
    IN IF start >= hi THEN <<>> ELSE SubSeq(arr, start + 1, hi)

---------------------------------------------------------------------------
(* getProducts: filters and pagination *)

Truthy(o, f) == Has(o, f) /\ o[f] # ""
TruthyText(o, f) == Has(o, f) /\ Len(o[f]) # 0
TruthyNumber(o, f) == Has(o, f) /\ o[f] # 0

\* faulty variant: the category filter is never pushed
ByCategoryIgnored(prods, filters) == prods

ByCategory(prods, filters) ==
    IF Truthy(filters, "category")
    THEN SelectSeq(prods, LAMBDA p : p.category = filters.category)
    ELSE prods

ByMinPrice(prods, filters) ==
    IF Has(filters, "minPrice")
    THEN SelectSeq(prods, LAMBDA p : p.price >= filters.minPrice)
    ELSE prods

ByMaxPrice(prods, filters) ==
    IF Has(filters, "maxPrice")
    THEN SelectSeq(prods, LAMBDA p : p.price <= filters.maxPrice)
    ELSE prods

\* faulty variant: `if (filters?.active)`, which drops the filter active = false
ByActiveTruthy(prods, filters) ==
    IF Has(filters, "active") /\ filters.active
    THEN SelectSeq(prods, LAMBDA p : p.active = filters.active)
    ELSE prods

ByActive(prods, filters) ==
    IF Has(filters, "active")
    THEN SelectSeq(prods, LAMBDA p : p.active = filters.active)
    ELSE prods

BySearch(prods, filters) ==
    IF TruthyText(filters, "search")
    THEN LET searchLower == toLowerCase(filters.search)
         IN SelectSeq(prods, LAMBDA p :
                \/ includes(toLowerCase(p.name), searchLower)
                \/ /\ TruthyText(p, "description")
                   /\ includes(toLowerCase(p.description), searchLower))
    ELSE prods

\* at least one filter function is pushed
AnyFilter(filters) ==
    \/ Truthy(filters, "category")
    \/ Has(filters, "minPrice")
    \/ Has(filters, "maxPrice")
    \/ Has(filters, "active")
    \/ TruthyText(filters, "search")

\* a filter callback reads a property of an undefined element
FilterThrows(products, filters) == AnyFilter(filters) /\ HasHole(products)

\* filterFunctions.reduce(...): category, minPrice, maxPrice, active, search
ApplyFilters(products, filters) ==
    BySearch(ByActive(ByMaxPrice(ByMinPrice(ByCategory(products, filters), filters),
                                 filters), filters), filters)

PageOf(pagination) ==
    IF TruthyNumber(pagination, "page") THEN pagination.page ELSE DefaultPage

PageSizeOf(pagination) ==
    IF TruthyNumber(pagination, "pageSize") THEN pagination.pageSize ELSE DefaultPageSize

\* faulty variant: an off-by-one in the comparison
HasNextInclusive(endIndex, totalItems) == endIndex <= totalItems

HasNextOf(endIndex, totalItems) == endIndex < totalItems

\* the PaginatedResponse built by the map callback
PaginatedResponse(products, filters, pagination) ==
    LET filtered == ApplyFilters(products, filters)
        page == PageOf(pagination)
        pageSize == PageSizeOf(pagination)
        totalItems == Len(filtered)
        totalPages == Ceil(totalItems, pageSize)
        startIndex == (page - 1) * pageSize
        endIndex == startIndex + pageSize
    IN [data |-> Slice(filtered, startIndex, endIndex),
        currentPage |-> page,
        pageSize |-> pageSize,
        totalItems |-> totalItems,
        totalPages |-> totalPages,
        hasNext |-> HasNextOf(endIndex, totalItems),
        hasPrevious |-> page > 1]

---------------------------------------------------------------------------
(* State after construction *)

\* the instant of construction: the start of StartDay
StartTime == [d |-> StartDay, ms |-> 0]

NoOp == [n |-> 0, kind |-> "none", id |-> 0, index |-> -1, product |-> EmptyObject,
         input |-> EmptyObject, due |-> StartTime]

Event(n, op, phase, id, input, outcome, error, result) ==
    [n |-> n, op |-> op, phase |-> phase, id |-> id, input |-> input,
     outcome |-> outcome, error |-> error, result |-> result]

\* ProductApiService: the step just taken; sent counts the requests the
\* call has sent, failure is what the transport reported
ApiEvent(n, op, phase, id, input, sent, outcome, failure, error, result) ==
    [n |-> n, op |-> op, phase |-> phase, id |-> id, input |-> input, sent |-> sent,
     outcome |-> outcome, failure |-> failure, error |-> error, result |-> result]

Methods == {"GET", "POST", "PUT", "DELETE"}

\* ProductListComponent: the step just taken
ListEvent(n, op, phase, outcome, error) ==
    [n |-> n, op |-> op, phase |-> phase, outcome |-> outcome, error |-> error]

\* the value initializeFilterForm gives the form; a null field (minPrice,
\* maxPrice) is a key the value does not have
InitialFilterForm == [search |-> <<>>, category |-> "", active |-> ""]

\* HttpRequestInterceptor: the step just taken
InterceptEvent(n, phase, outcome, index, delayTime, error) ==
    [n |-> n, phase |-> phase, outcome |-> outcome, index |-> index,
     delayTime |-> delayTime, error |-> error]

Init ==
    /\ mockProducts = seedProducts
    /\ productsSubject = seedProducts
    /\ loadingSubject = FALSE
    /\ nextId = FirstId
    /\ pending = {}
    /\ now = StartTime
    /\ nCalls = 0
    /\ last = Event(0, "init", "done", 0, EmptyObject, "ok", EmptyObject, EmptyObject)
    /\ apiProductsSubject = <<>>
    /\ inFlight = {}
    /\ httpSent = [m \in Methods |-> 0]
    /\ nApiCalls = 0
    /\ apiLast = ApiEvent(0, "init", "done", 0, EmptyObject, 0, "ok", EmptyObject,
                          EmptyObject, EmptyObject)
    /\ listProducts = <<>>
    /\ listTotalItems = 0
    /\ listLoading = FALSE
    /\ currentPage = 1
    /\ filterForm = InitialFilterForm
    /\ debouncing = FALSE
    /\ requests = {}
    /\ notifications = <<>>
    /\ nListCalls = 0
    /\ lastLoad = [n |-> 0, page |-> EmptyObject]
    /\ listLast = ListEvent(0, "constructor", "done", "ok", EmptyObject)
    /\ requestCount = 0
    /\ isLoadingSubject = FALSE
    /\ intercepted = {}
    /\ nIntercepted = 0
    /\ handled = 0
    /\ icLast = InterceptEvent(0, "init", "ok", 0, 0, EmptyObject)

\* `new Date()`: the clock may have moved on since it was last read
ClockReads(t) == {t, AddMs(t, 1)}

\* an Observable that will emit after delay(API_DELAY)
Schedule(op) == pending' = pending \cup {[op EXCEPT !.due = AddMs(now', API_DELAY)]}

\* faulty variant: nothing is published, products$ keeps its value
NotPublished(arr) == productsSubject

\* [...this.mockProducts]
Copy(arr) == arr

---------------------------------------------------------------------------
(* getProducts *)

GetProductsCall(filters, pagination) ==
    LET n == nCalls + 1
        input == [filters |-> filters, pagination |-> pagination]
    IN /\ nCalls' = n
       /\ loadingSubject' = TRUE
       /\ now' = now
       /\ Schedule([NoOp EXCEPT !.n = n, !.kind = "getProducts", !.input = input])
       /\ last' = Event(n, "getProducts", "call", 0, input, "pending", EmptyObject, EmptyObject)
       /\ UNCHANGED <<mockProducts, productsSubject, nextId>>
       /\ UNCHANGED <<apiVars, listVars, loadingVars>>

GetProductsDone(op) ==
    LET filters == op.input.filters
        pagination == op.input.pagination
    IN /\ op.kind = "getProducts"
       /\ pending' = pending \ {op}
       /\ now' = DateMax(now, op.due)
       /\ IF FilterThrows(mockProducts, filters)
          THEN /\ last' = Event(op.n, "getProducts", "done", 0, op.input, "error",
                                TypeError, EmptyObject)
               /\ UNCHANGED <<productsSubject, loadingSubject>>
          ELSE IF PageOf(pagination) < 1
          THEN /\ last' = Event(op.n, "getProducts", "done", 0, op.input, "error",
                                PlainError("Page must be greater than 0"), EmptyObject)
               /\ UNCHANGED <<productsSubject, loadingSubject>>
          ELSE LET response == PaginatedResponse(mockProducts, filters, pagination)
               IN /\ productsSubject' = response.data
                  /\ loadingSubject' = FALSE
                  /\ last' = Event(op.n, "getProducts", "done", 0, op.input, "ok",
                                   EmptyObject, response)
       /\ UNCHANGED <<mockProducts, nextId, nCalls>>
       /\ UNCHANGED <<apiVars, listVars, loadingVars>>

---------------------------------------------------------------------------
(* getProductById *)

\* this.mockProducts.find(p => p.id === id); EmptyObject stands for undefined
find(arr, id) ==
    IF findIndex(arr, id) = -1 THEN EmptyObject ELSE arr[findIndex(arr, id) + 1]

GetProductByIdCall(id) ==
    LET n == nCalls + 1
    IN /\ nCalls' = n
       /\ now' = now
       /\ UNCHANGED <<mockProducts, productsSubject, nextId>>
       /\ IF id < 1
          THEN /\ loadingSubject' = FALSE
               /\ pending' = pending
               /\ last' = Event(n, "getProductById", "call", id, EmptyObject, "error",
                                createApiError(400, "Bad Request", <<"Invalid product ID">>),
                                EmptyObject)
          ELSE IF findIndexThrows(mockProducts, id)
          THEN /\ loadingSubject' = TRUE
               /\ pending' = pending
               /\ last' = Event(n, "getProductById", "call", id, EmptyObject, "thrown",
                                TypeError, EmptyObject)
          ELSE /\ loadingSubject' = TRUE
               /\ Schedule([NoOp EXCEPT !.n = n, !.kind = "getProductById", !.id = id,
                                        !.product = find(mockProducts, id)])
               /\ last' = Event(n, "getProductById", "call", id, EmptyObject, "pending",
                                EmptyObject, EmptyObject)
       /\ UNCHANGED <<apiVars, listVars, loadingVars>>

GetProductByIdDone(op) ==
    /\ op.kind = "getProductById"
    /\ pending' = pending \ {op}
    /\ now' = DateMax(now, op.due)
    /\ loadingSubject' = FALSE
    /\ IF op.product = EmptyObject
       THEN last' = Event(op.n, "getProductById", "done", op.id, EmptyObject, "error",
                          createApiError(404, "Not Found", <<"Product with ID ", op.id, " not found">>),
                          EmptyObject)
       ELSE last' = Event(op.n, "getProductById", "done", op.id, EmptyObject, "ok",
                          EmptyObject, op.product)
    /\ UNCHANGED <<mockProducts, productsSubject, nextId, nCalls>>
    /\ UNCHANGED <<apiVars, listVars, loadingVars>>

---------------------------------------------------------------------------
(* createProduct *)

\* faulty variant: the id is the length of the dataset plus one
NewProductNumbered(id, productData, createdAt, updatedAt) ==
    Spread(Spread([id |-> Len(mockProducts) + 1], productData),
           [active |-> IF Has(productData, "active") THEN productData.active ELSE TRUE,
            createdAt |-> createdAt,
            updatedAt |-> updatedAt])

\* the entity built from the input: id, the input's own keys, then active
\* and the two timestamps
NewProduct(id, productData, createdAt, updatedAt) ==
    Spread(Spread([id |-> id], productData),
           [active |-> IF Has(productData, "active") THEN productData.active ELSE TRUE,
            createdAt |-> createdAt,
            updatedAt |-> updatedAt])

CreateProductCall(productData) ==
    LET n == nCalls + 1
        validationErrors == validateProductData(productData, FALSE)
    IN /\ nCalls' = n
       /\ UNCHANGED <<mockProducts, productsSubject>>
       /\ IF Len(validationErrors) > 0
          THEN /\ loadingSubject' = FALSE
               /\ now' = now
               /\ UNCHANGED <<pending, nextId>>
               /\ last' = Event(n, "createProduct", "call", 0, productData, "error",
                                createApiError(400, "Validation Failed", validationErrors),
                                EmptyObject)
          ELSE \E createdAt \in ClockReads(now) :
               \E updatedAt \in ClockReads(createdAt) :
               /\ loadingSubject' = TRUE
               /\ nextId' = nextId + 1
               /\ now' = updatedAt
               /\ Schedule([NoOp EXCEPT !.n = n, !.kind = "createProduct", !.id = nextId,
                                        !.input = productData,
                                        !.product = NewProduct(nextId, productData,
                                                               createdAt, updatedAt)])
               /\ last' = Event(n, "createProduct", "call", nextId, productData, "pending",
                                EmptyObject, EmptyObject)
       /\ UNCHANGED <<apiVars, listVars, loadingVars>>

CreateProductDone(op) ==
    /\ op.kind = "createProduct"
    /\ pending' = pending \ {op}
    /\ now' = DateMax(now, op.due)
    /\ mockProducts' = Append(mockProducts, op.product)
    /\ productsSubject' = Copy(mockProducts')
    /\ loadingSubject' = FALSE
    /\ last' = Event(op.n, "createProduct", "done", op.id, op.input, "ok", EmptyObject,
                     op.product)
    /\ UNCHANGED <<nextId, nCalls>>
    /\ UNCHANGED <<apiVars, listVars, loadingVars>>

---------------------------------------------------------------------------
(* updateProduct *)

UpdatedProduct(current, id, productData, updatedAt) ==
    Spread(Spread(current, productData),
           [id |-> id, createdAt |-> current.createdAt, updatedAt |-> updatedAt])

UpdateProductCall(id, productData) ==
    LET n == nCalls + 1
        validationErrors == validateProductData(productData, TRUE)
        index == findIndex(mockProducts, id)
        Fail(outcome, loading, error) ==
            /\ loadingSubject' = loading
            /\ now' = now
            /\ pending' = pending
            /\ last' = Event(n, "updateProduct", "call", id, productData, outcome, error,
                             EmptyObject)
    IN /\ nCalls' = n
       /\ UNCHANGED <<mockProducts, productsSubject, nextId>>
       /\ IF id < 1
          THEN Fail("error", FALSE, createApiError(400, "Bad Request", <<"Invalid product ID">>))
          ELSE IF Len(validationErrors) > 0
          THEN Fail("error", FALSE, createApiError(400, "Validation Failed", validationErrors))
          ELSE IF findIndexThrows(mockProducts, id)
          THEN Fail("thrown", TRUE, TypeError)
          ELSE IF index = -1
          THEN Fail("error", FALSE, createApiError(404, "Not Found", <<"Product with ID ", id, " not found">>))
          ELSE \E updatedAt \in ClockReads(now) :
               /\ loadingSubject' = TRUE
               /\ now' = updatedAt
               /\ Schedule([NoOp EXCEPT !.n = n, !.kind = "updateProduct", !.id = id,
                                        !.index = index, !.input = productData,
                                        !.product = UpdatedProduct(mockProducts[index + 1], id,
                                                                   productData, updatedAt)])
               /\ last' = Event(n, "updateProduct", "call", id, productData, "pending",
                                EmptyObject, EmptyObject)
       /\ UNCHANGED <<apiVars, listVars, loadingVars>>

UpdateProductDone(op) ==
    /\ op.kind = "updateProduct"
    /\ pending' = pending \ {op}
    /\ now' = DateMax(now, op.due)
    /\ mockProducts' = ArraySet(mockProducts, op.index, op.product)
    /\ productsSubject' = Copy(mockProducts')
    /\ loadingSubject' = FALSE
    /\ last' = Event(op.n, "updateProduct", "done", op.id, op.input, "ok", EmptyObject,
                     op.product)
    /\ UNCHANGED <<nextId, nCalls>>
    /\ UNCHANGED <<apiVars, listVars, loadingVars>>

---------------------------------------------------------------------------
(* deleteProduct *)

DeleteProductCall(id) ==
    LET n == nCalls + 1
        index == findIndex(mockProducts, id)
        Fail(outcome, loading, error) ==
            /\ loadingSubject' = loading
            /\ pending' = pending
            /\ last' = Event(n, "deleteProduct", "call", id, EmptyObject, outcome, error,
                             EmptyObject)
    IN /\ nCalls' = n
       /\ now' = now
       /\ UNCHANGED <<mockProducts, productsSubject, nextId>>
       /\ IF id < 1
          THEN Fail("error", FALSE, createApiError(400, "Bad Request", <<"Invalid product ID">>))
          ELSE IF findIndexThrows(mockProducts, id)
          THEN Fail("thrown", TRUE, TypeError)
          ELSE IF index = -1
          THEN Fail("error", FALSE, createApiError(404, "Not Found", <<"Product with ID ", id, " not found">>))
          ELSE /\ loadingSubject' = TRUE
               /\ Schedule([NoOp EXCEPT !.n = n, !.kind = "deleteProduct", !.id = id,
                                        !.index = index])
               /\ last' = Event(n, "deleteProduct", "call", id, EmptyObject, "pending",
                                EmptyObject, EmptyObject)
       /\ UNCHANGED <<apiVars, listVars, loadingVars>>

DeleteProductDone(op) ==
    /\ op.kind = "deleteProduct"
    /\ pending' = pending \ {op}
    /\ now' = DateMax(now, op.due)
    /\ mockProducts' = Splice1(mockProducts, op.index)
    /\ productsSubject' = Copy(mockProducts')
    /\ loadingSubject' = FALSE
    /\ last' = Event(op.n, "deleteProduct", "done", op.id, EmptyObject, "ok", EmptyObject,
                     EmptyObject)
    /\ UNCHANGED <<nextId, nCalls>>
    /\ UNCHANGED <<apiVars, listVars, loadingVars>>

---------------------------------------------------------------------------
(* The subscriber leaves *)

\* takeUntil(destroy$) unsubscribes from the Observable a mutation returned
\* before delay(API_DELAY) has elapsed: the timer is cancelled and the tap
\* and map callbacks never run
Unsubscribe(op) ==
    /\ op.kind \in {"createProduct", "updateProduct", "deleteProduct"}
    /\ pending' = pending \ {op}
    /\ last' = Event(op.n, op.kind, "unsubscribed", op.id, op.input, "cancelled",
                     EmptyObject, EmptyObject)
    /\ UNCHANGED <<mockProducts, productsSubject, loadingSubject, nextId, now, nCalls>>
    /\ UNCHANGED <<apiVars, listVars, loadingVars>>

---------------------------------------------------------------------------
(* ProductApiService: errors *)

\* what timeout(environment.apiTimeout) emits when no response arrived in
\* time: an error with a message and neither status nor error
TimeoutError == [kind |-> "TimeoutError", message |-> "Timeout has occurred"]

\* the HttpErrorResponse of a failed request; status is held as its decimal
\* rendering, error is the body of the response
HttpErrorResponse(status, error) ==
    [kind |-> "HttpErrorResponse", status |-> status, error |-> error,
     message |-> "Http failure response"]

\* error.error of a failure on the client side
ErrorEvent(message) == [kind |-> "ErrorEvent", message |-> message]

\* handleError: the Error delivered to the caller; its message is the
\* sequence of the pieces of the template that built it
handleError(error) ==
    LET body == IF Has(error, "error") THEN error.error ELSE EmptyObject
        OrElse(default) == IF Truthy(body, "message") THEN body.message ELSE default
        status == IF Has(error, "status") THEN error.status ELSE "undefined"
        errorMessage ==
            IF Has(body, "kind") /\ body.kind = "ErrorEvent"
            THEN <<"Erro de rede: ", body.message>>
            ELSE CASE status = "0" ->
                        <<"Não foi possível conectar ao servidor. Verifique sua conexão.">>
                   [] status = "400" ->
                        <<OrElse("Dados inválidos. Verifique as informações.")>>
                   [] status = "401" -> <<"Não autorizado. Faça login novamente.">>
                   [] status = "403" ->
                        <<"Você não tem permissão para realizar esta ação.">>
                   [] status = "404" -> <<"Recurso não encontrado.">>
                   [] status = "409" -> <<"Conflito. O recurso já existe.">>
                   [] status = "422" ->
                        <<OrElse("Dados inválidos para processamento.")>>
                   [] status = "500" ->
                        <<"Erro interno do servidor. Tente novamente mais tarde.">>
                   [] status = "503" ->
                        <<"Serviço temporariamente indisponível. Tente novamente.">>
                   [] OTHER -> <<"Erro ", status, ": ", error.message>>
    IN PlainError(errorMessage)

---------------------------------------------------------------------------
(* ProductApiService: requests *)

\* x.toString(): the string that renders x
toString(x) == [string |-> x]

\* the HttpParams getProducts builds; EmptyObject stands for an argument
\* that is not given
HttpParamsOf(filters, pagination) ==
    LET Param(key, present, value) ==
            IF present THEN [k \in {key} |-> value] ELSE EmptyObject
    IN Spread(Param("page", pagination # EmptyObject, toString(pagination.page)),
       Spread(Param("pageSize", pagination # EmptyObject, toString(pagination.pageSize)),
       Spread(Param("search", Has(filters, "search") /\ Len(trim(filters.search)) # 0,
                    trim(filters.search)),
       Spread(Param("category", Truthy(filters, "category"), filters.category),
       Spread(Param("minPrice", Has(filters, "minPrice"), toString(filters.minPrice)),
       Spread(Param("maxPrice", Has(filters, "maxPrice"), toString(filters.maxPrice)),
              Param("active", Has(filters, "active"), toString(filters.active))))))))

\* faulty variant: every operation retries twice
RetryCountTwice(kind) == 2

\* faulty variant: the list retries once, like getProductById
RetryCountOnce(kind) == IF kind \in {"getProducts", "getProductById"} THEN 1 ELSE 0

\* the argument of retry() in the pipe of each operation
RetryCount(kind) ==
    CASE kind = "getProducts" -> 2
      [] kind = "getProductById" -> 1
      [] OTHER -> 0

\* this.http.get/post/put/delete, once subscribed, sends one request
Send(method) == httpSent' = [httpSent EXCEPT ![method] = @ + 1]

\* subscribing to the Observable an operation returns
Subscribe(kind, method, id, input) ==
    LET n == nApiCalls + 1
    IN /\ nApiCalls' = n
       /\ inFlight' = inFlight \cup {[n |-> n, kind |-> kind, method |-> method, id |-> id,
                                      input |-> input, sent |-> 1]}
       /\ Send(method)
       /\ apiLast' = ApiEvent(n, kind, "call", id, input, 1, "pending", EmptyObject,
                              EmptyObject, EmptyObject)
       /\ UNCHANGED apiProductsSubject
       /\ UNCHANGED <<mockVars, listVars, loadingVars>>

\* the response of op's request arrived: next and complete pass down the pipe
Emitted(op, result) ==
    /\ inFlight' = inFlight \ {op}
    /\ apiLast' = ApiEvent(op.n, op.kind, "done", op.id, op.input, op.sent, "ok",
                           EmptyObject, EmptyObject, result)
    /\ UNCHANGED <<httpSent, nApiCalls>>
    /\ UNCHANGED <<mockVars, listVars, loadingVars>>

ApiGetProductsCall(filters, pagination) ==
    Subscribe("getProducts", "GET", 0, [params |-> HttpParamsOf(filters, pagination)])

ApiGetProductsNext(op, response) ==
    /\ op.kind = "getProducts"
    /\ apiProductsSubject' = response.data
    /\ Emitted(op, response)

ApiGetProductByIdCall(id) == Subscribe("getProductById", "GET", id, EmptyObject)

ApiGetProductByIdNext(op, product) ==
    /\ op.kind = "getProductById"
    /\ apiProductsSubject' = apiProductsSubject
    /\ Emitted(op, product)

ApiCreateProductCall(product) == Subscribe("createProduct", "POST", 0, product)

ApiCreateProductNext(op, newProduct) ==
    /\ op.kind = "createProduct"
    /\ apiProductsSubject' = Append(apiProductsSubject, newProduct)
    /\ Emitted(op, newProduct)

ApiUpdateProductCall(id, product) == Subscribe("updateProduct", "PUT", id, product)

\* faulty variant: the element is removed and the returned product appended
ReplacedAtEnd(currentProducts, id, updatedProduct) ==
    IF findIndex(currentProducts, id) # -1
    THEN Append(Splice1(currentProducts, findIndex(currentProducts, id)), updatedProduct)
    ELSE currentProducts

\* the list the tap of updateProduct leaves in productsSubject
Replaced(currentProducts, id, updatedProduct) ==
    LET index == findIndex(currentProducts, id)
    IN IF index # -1
       THEN ArraySet(currentProducts, index, updatedProduct)
       ELSE currentProducts

ApiUpdateProductNext(op, updatedProduct) ==
    /\ op.kind = "updateProduct"
    /\ apiProductsSubject' = Replaced(apiProductsSubject, op.id, updatedProduct)
    /\ Emitted(op, updatedProduct)

ApiDeleteProductCall(id) == Subscribe("deleteProduct", "DELETE", id, EmptyObject)

ApiDeleteProductNext(op) ==
    /\ op.kind = "deleteProduct"
    /\ apiProductsSubject' = SelectSeq(apiProductsSubject, LAMBDA p : p.id # op.id)
    /\ Emitted(op, EmptyObject)

\* the request of op fails (an error response, or no response within
\* environment.apiTimeout): retry(count) subscribes again while it has
\* retries left, and otherwise catchError(this.handleError) delivers one Error
ApiAttemptFails(op, failure) ==
    /\ op \in inFlight
    /\ IF op.sent <= RetryCount(op.kind)
       THEN /\ inFlight' = (inFlight \ {op}) \cup {[op EXCEPT !.sent = @ + 1]}
            /\ Send(op.method)
            /\ apiLast' = ApiEvent(op.n, op.kind, "retry", op.id, op.input, op.sent + 1,
                                   "pending", failure, EmptyObject, EmptyObject)
       ELSE /\ inFlight' = inFlight \ {op}
            /\ httpSent' = httpSent
            /\ apiLast' = ApiEvent(op.n, op.kind, "done", op.id, op.input, op.sent,
                                   "error", failure, handleError(failure), EmptyObject)
    /\ UNCHANGED <<apiProductsSubject, nApiCalls>>
    /\ UNCHANGED <<mockVars, listVars, loadingVars>>

ClearCache ==
    /\ apiProductsSubject' = <<>>
    /\ apiLast' = ApiEvent(0, "clearCache", "done", 0, EmptyObject, 0, "ok", EmptyObject,
                           EmptyObject, EmptyObject)
    /\ UNCHANGED <<inFlight, httpSent, nApiCalls>>
    /\ UNCHANGED <<mockVars, listVars, loadingVars>>

---------------------------------------------------------------------------
(* ProductListComponent *)

ListPageSize == 10

\* buildFilters: the ProductFilter made from the value of the form
buildFilters(formValue) ==
    LET search == IF Len(trim(formValue.search)) # 0
                  THEN [search |-> trim(formValue.search)] ELSE EmptyObject
        category == IF formValue.category # ""
                    THEN [category |-> formValue.category] ELSE EmptyObject
        minPrice == IF Has(formValue, "minPrice") /\ formValue.minPrice >= 0
                    THEN [minPrice |-> formValue.minPrice] ELSE EmptyObject
        maxPrice == IF Has(formValue, "maxPrice") /\ formValue.maxPrice >= 0
                    THEN [maxPrice |-> formValue.maxPrice] ELSE EmptyObject
        active == IF formValue.active # ""
                  THEN [active |-> formValue.active = "true"] ELSE EmptyObject
    IN Spread(search, Spread(category, Spread(minPrice, Spread(maxPrice, active))))

\* the subscription loadProducts makes: getProducts(filters, pagination)
LoadRequest(n, formValue, page) ==
    [n |-> n, kind |-> "getProducts", id |-> 0, filters |-> buildFilters(formValue),
     pagination |-> [page |-> page, pageSize |-> ListPageSize]]

\* the subscription deleteProduct makes
DeleteRequest(n, productId) ==
    [n |-> n, kind |-> "deleteProduct", id |-> productId, filters |-> EmptyObject,
     pagination |-> EmptyObject]

\* { ...product, active: product.active.toString() }
Shown(product) == [product EXCEPT !.active = IF @ THEN "true" ELSE "false"]

\* faulty variant: nothing is shown to the user
NotifyNothing(type, message) == notifications

\* poNotification.error / poNotification.success
Notify(type, message) == Append(notifications, [type |-> type, message |-> message])

\* faulty variant: the total of the page shown before is kept
FallbackKeepsTotal ==
    [data |-> <<>>, currentPage |-> 1, pageSize |-> 10, totalItems |-> listTotalItems,
     totalPages |-> 0, hasNext |-> FALSE, hasPrevious |-> FALSE]

\* the page catchError puts in the place of the failed answer
FallbackPage ==
    [data |-> <<>>, currentPage |-> 1, pageSize |-> 10, totalItems |-> 0,
     totalPages |-> 0, hasNext |-> FALSE, hasPrevious |-> FALSE]

\* loadProducts() up to its subscription, called with the page and the form
\* value of that moment; remaining are the subscriptions that stay
Load(page, formValue, remaining) ==
    /\ nListCalls' = nListCalls + 1
    /\ lastLoad' = [n |-> nListCalls + 1, page |-> EmptyObject]
    /\ listLoading' = TRUE
    /\ requests' = remaining \cup {LoadRequest(nListCalls + 1, formValue, page)}

\* the next handler of loadProducts, on the page that req was answered with
Display(req, response) ==
    /\ lastLoad' = IF req.n = lastLoad.n THEN [lastLoad EXCEPT !.page = response] ELSE lastLoad
    /\ listProducts' = [i \in DOMAIN response.data |-> Shown(response.data[i])]
    /\ listTotalItems' = response.totalItems
    /\ listLoading' = FALSE

\* catchError of loadProducts, then the next handler on the page it returns
CatchLoadError(req, error) ==
    /\ req.kind = "getProducts"
    /\ requests' = requests \ {req}
    /\ notifications' =
           IF Has(error, "kind") /\ error.kind = "TimeoutError"
           THEN Notify("error", <<"Tempo limite excedido ao carregar produtos">>)
           ELSE Notify("error", <<"Erro ao carregar produtos: ", error.message>>)
    /\ Display(req, FallbackPage)
    /\ UNCHANGED <<currentPage, filterForm, debouncing, nListCalls>>
    /\ UNCHANGED <<mockVars, apiVars, loadingVars>>

ListNgOnInit ==
    /\ nListCalls = 0
    /\ Load(currentPage, filterForm, requests)
    /\ listLast' = ListEvent(nListCalls + 1, "ngOnInit", "call", "pending", EmptyObject)
    /\ UNCHANGED <<listProducts, listTotalItems, currentPage, filterForm, debouncing,
                   notifications>>
    /\ UNCHANGED <<mockVars, apiVars, loadingVars>>

\* the page action 'Atualizar Lista'
ListLoadProducts ==
    /\ nListCalls > 0
    /\ Load(currentPage, filterForm, requests)
    /\ listLast' = ListEvent(nListCalls + 1, "loadProducts", "call", "pending", EmptyObject)
    /\ UNCHANGED <<listProducts, listTotalItems, currentPage, filterForm, debouncing,
                   notifications>>
    /\ UNCHANGED <<mockVars, apiVars, loadingVars>>

ListOnPageChange(page) ==
    /\ nListCalls > 0
    /\ currentPage' = page
    /\ Load(page, filterForm, requests)
    /\ listLast' = ListEvent(nListCalls + 1, "onPageChange", "call", "pending", EmptyObject)
    /\ UNCHANGED <<listProducts, listTotalItems, filterForm, debouncing, notifications>>
    /\ UNCHANGED <<mockVars, apiVars, loadingVars>>

\* the user edits a filter: valueChanges emits and debounceTime(500) starts
ListValueChanges(formValue) ==
    /\ nListCalls > 0
    /\ filterForm' = formValue
    /\ debouncing' = TRUE
    /\ listLast' = ListEvent(listLast.n, "valueChanges", "debounce", "pending", EmptyObject)
    /\ UNCHANGED <<listProducts, listTotalItems, listLoading, currentPage, requests,
                   notifications, nListCalls, lastLoad>>
    /\ UNCHANGED <<mockVars, apiVars, loadingVars>>

\* 500 ms have passed since the last change of the form
ListDebounceElapsed ==
    /\ debouncing
    /\ debouncing' = FALSE
    /\ currentPage' = 1
    /\ Load(1, filterForm, requests)
    /\ listLast' = ListEvent(nListCalls + 1, "valueChanges", "call", "pending", EmptyObject)
    /\ UNCHANGED <<listProducts, listTotalItems, filterForm, notifications>>
    /\ UNCHANGED <<mockVars, apiVars, loadingVars>>

\* the service answers a getProducts of the component
ListLoadProductsNext(req, response) ==
    /\ req.kind = "getProducts"
    /\ requests' = requests \ {req}
    /\ Display(req, response)
    /\ listLast' = ListEvent(req.n, "loadProducts", "next", "ok", EmptyObject)
    /\ UNCHANGED <<currentPage, filterForm, debouncing, notifications, nListCalls>>
    /\ UNCHANGED <<mockVars, apiVars, loadingVars>>

\* the Observable of the service fails
ListLoadProductsError(req, error) ==
    /\ CatchLoadError(req, error)
    /\ listLast' = ListEvent(req.n, "loadProducts", "error", "caught", error)

\* timeout(5000): the service has emitted nothing for 5 seconds
ListLoadProductsTimeout(req) ==
    /\ CatchLoadError(req, TimeoutError)
    /\ listLast' = ListEvent(req.n, "loadProducts", "timeout", "caught", TimeoutError)

\* confirmDelete accepted: deleteProduct(productId)
ListDeleteProduct(productId) ==
    /\ nListCalls > 0
    /\ listLoading' = TRUE
    /\ nListCalls' = nListCalls + 1
    /\ requests' = requests \cup {DeleteRequest(nListCalls + 1, productId)}
    /\ listLast' = ListEvent(nListCalls + 1, "deleteProduct", "call", "pending", EmptyObject)
    /\ UNCHANGED <<listProducts, listTotalItems, currentPage, filterForm, debouncing,
                   notifications, lastLoad>>
    /\ UNCHANGED <<mockVars, apiVars, loadingVars>>

\* the deletion succeeded: success notification, then loadProducts()
ListDeleteProductNext(req) ==
    /\ req.kind = "deleteProduct"
    /\ notifications' = Notify("success", <<"Produto excluído com sucesso!">>)
    /\ Load(currentPage, filterForm, requests \ {req})
    /\ listLast' = ListEvent(req.n, "deleteProduct", "next", "ok", EmptyObject)
    /\ UNCHANGED <<listProducts, listTotalItems, currentPage, filterForm, debouncing>>
    /\ UNCHANGED <<mockVars, apiVars, loadingVars>>

ListDeleteProductError(req, error) ==
    /\ req.kind = "deleteProduct"
    /\ requests' = requests \ {req}
    /\ notifications' = Notify("error", <<"Erro ao excluir produto: ", error.message>>)
    /\ listLoading' = FALSE
    /\ listLast' = ListEvent(req.n, "deleteProduct", "error", "caught", error)
    /\ UNCHANGED <<listProducts, listTotalItems, currentPage, filterForm, debouncing,
                   nListCalls, lastLoad>>
    /\ UNCHANGED <<mockVars, apiVars, loadingVars>>

---------------------------------------------------------------------------
(* LoadingService and HttpRequestInterceptor *)

updateLoadingState == isLoadingSubject' = (requestCount' > 0)

startLoading ==
    /\ requestCount' = requestCount + 1
    /\ updateLoadingState

stopLoading ==
    /\ requestCount' = Max({0, requestCount - 1})
    /\ updateLoadingState

\* LoadingService.reset
reset ==
    /\ requestCount' = 0
    /\ isLoadingSubject' = FALSE
    /\ icLast' = InterceptEvent(0, "reset", "ok", 0, 0, EmptyObject)
    /\ UNCHANGED <<intercepted, nIntercepted, handled>>
    /\ UNCHANGED <<mockVars, apiVars, listVars>>

\* the HttpErrorResponse the next handler fails with; status is a number
HandlerError(status, statusText, error) ==
    [kind |-> "HttpErrorResponse", status |-> status, statusText |-> statusText,
     error |-> error, message |-> "Http failure response"]

\* catchError: the error with friendlyMessage and technicalMessage added;
\* JSON.stringify(x) is [json |-> x], a template is the sequence of its pieces
Enriched(error) ==
    LET status == error.status
        body == error.error
        OrElse(default) == IF Truthy(body, "message") THEN body.message ELSE default
        stringify(x) == [json |-> x]
        messages ==
            IF Has(body, "kind") /\ body.kind = "ErrorEvent"
            THEN <<"Erro de conexão. Verifique sua internet.", body.message>>
            ELSE CASE status = 0 ->
                     <<"Servidor indisponível. Verifique sua conexão com a internet.",
                       "Network error or CORS issue">>
                   [] status = 400 ->
                     <<OrElse("Dados inválidos enviados ao servidor."), stringify(body)>>
                   [] status = 401 ->
                     <<"Acesso não autorizado. Faça login novamente.", "Authentication required">>
                   [] status = 403 ->
                     <<"Acesso proibido. Você não tem permissão para esta operação.", "Forbidden">>
                   [] status = 404 ->
                     <<"Recurso não encontrado.", <<"Resource not found: ", "url">>>>
                   [] status = 409 ->
                     <<OrElse("Conflito. O recurso já existe."), stringify(body)>>
                   [] status = 422 ->
                     <<OrElse("Dados não processáveis. Verifique as informações enviadas."),
                       stringify(IF Truthy(body, "errors") THEN body.errors ELSE body)>>
                   [] status = 429 ->
                     <<"Muitas requisições. Aguarde um momento e tente novamente.",
                       "Rate limit exceeded">>
                   [] status = 500 ->
                     <<"Erro interno do servidor. Tente novamente mais tarde.",
                       "Internal server error">>
                   [] status = 502 ->
                     <<"Servidor temporariamente indisponível (Bad Gateway).", "Bad Gateway">>
                   [] status = 503 ->
                     <<"Serviço temporariamente indisponível. Tente novamente em alguns minutos.",
                       "Service Unavailable">>
                   [] status = 504 ->
                     <<"Tempo limite excedido. O servidor demorou muito para responder.",
                       "Gateway Timeout">>
                   [] OTHER ->
                     <<<<"Erro ", status, ": ",
                         IF error.statusText # "" THEN error.statusText ELSE "Erro desconhecido">>,
                       error.message>>
    IN Spread(error, [friendlyMessage |-> messages[1], technicalMessage |-> messages[2]])

\* faulty variant: only a failure without HTTP status is tried again
GivesUpUnlessNetwork(error, index) == error.status # 0 \/ index >= 2

\* retryWhen: the failure is passed on instead of being tried again
GivesUp(error, index) == (error.status >= 400 /\ error.status < 500) \/ index >= 2

\* Math.pow(2, index) * 1000
DelayTime(index) == (2 ^ index) * 1000

\* intercept: startLoading, then the request goes to the next handler
Intercept(method) ==
    /\ startLoading
    /\ nIntercepted' = nIntercepted + 1
    /\ handled' = handled + 1
    /\ intercepted' = intercepted \cup
           {[n |-> nIntercepted + 1, method |-> method, index |-> 0, waiting |-> FALSE]}
    /\ icLast' = InterceptEvent(nIntercepted + 1, "intercept", "pending", 0, 0, EmptyObject)
    /\ UNCHANGED <<mockVars, apiVars, listVars>>

\* the next handler answers: the response is passed on, finalize runs
InterceptedResponds(r) ==
    /\ ~r.waiting
    /\ intercepted' = intercepted \ {r}
    /\ stopLoading
    /\ icLast' = InterceptEvent(r.n, "response", "ok", r.index, 0, EmptyObject)
    /\ UNCHANGED <<nIntercepted, handled>>
    /\ UNCHANGED <<mockVars, apiVars, listVars>>

\* the next handler fails: retryWhen either starts timer(delayTime) or passes
\* the failure on to catchError, after which finalize runs
InterceptedFails(r, error) ==
    /\ ~r.waiting
    /\ IF GivesUp(error, r.index)
       THEN /\ intercepted' = intercepted \ {r}
            /\ stopLoading
            /\ icLast' = InterceptEvent(r.n, "error", "error", r.index, 0, Enriched(error))
       ELSE /\ intercepted' = (intercepted \ {r}) \cup
                                  {[r EXCEPT !.index = @ + 1, !.waiting = TRUE]}
            /\ icLast' = InterceptEvent(r.n, "backoff", "pending", r.index,
                                        DelayTime(r.index), error)
            /\ UNCHANGED <<requestCount, isLoadingSubject>>
    /\ UNCHANGED <<nIntercepted, handled>>
    /\ UNCHANGED <<mockVars, apiVars, listVars>>

\* timer(delayTime) fires: retryWhen subscribes to the next handler again
InterceptedRetries(r) ==
    /\ r.waiting
    /\ intercepted' = (intercepted \ {r}) \cup {[r EXCEPT !.waiting = FALSE]}
    /\ handled' = handled + 1
    /\ icLast' = InterceptEvent(r.n, "retry", "pending", r.index, 0, EmptyObject)
    /\ UNCHANGED <<requestCount, isLoadingSubject, nIntercepted>>
    /\ UNCHANGED <<mockVars, apiVars, listVars>>

\* the caller unsubscribes (a timeout, takeUntil): finalize runs
InterceptedUnsubscribed(r) ==
    /\ intercepted' = intercepted \ {r}
    /\ stopLoading
    /\ icLast' = InterceptEvent(r.n, "unsubscribed", "cancelled", r.index, 0, EmptyObject)
    /\ UNCHANGED <<nIntercepted, handled>>
    /\ UNCHANGED <<mockVars, apiVars, listVars>>

---------------------------------------------------------------------------
(* Properties: the dataset under overlapping mutations (checked under Spec) *)

Ids(arr) == {arr[i].id : i \in {j \in DOMAIN arr : ~IsHole(arr[j])}}

Records(arr) == SelectSeq(arr, LAMBDA p : ~IsHole(p))

\* the fields a caller can set
InputFields == {"name", "description", "price", "category", "active", "imageUrl"}

SameField(a, b, f) == (Has(a, f) <=> Has(b, f)) /\ (Has(a, f) => a[f] = b[f])

Completed(op) == last.op = op /\ last.phase = "done" /\ last.outcome = "ok"

\* C1: no two records of mockProducts have the same id, in every state
\* reachable by overlapping createProduct/updateProduct/deleteProduct calls.
C1_UniqueIds ==
    \A i, j \in DOMAIN mockProducts :
        (i # j /\ ~IsHole(mockProducts[i]) /\ ~IsHole(mockProducts[j]))
            => mockProducts[i].id # mockProducts[j].id

\* C2: a completing updateProduct(id, input) leaves every field absent from
\* input as the record for id had it just before the completion, and keeps
\* its id and createdAt.
C2_UpdateKeepsAbsentFields ==
    [][(/\ last'.op = "updateProduct" /\ last'.phase = "done" /\ last'.outcome = "ok"
        /\ ~HasHole(mockProducts) /\ ~HasHole(mockProducts')
        /\ last'.id \in Ids(mockProducts))
       => LET before == find(mockProducts, last'.id)
              after == find(mockProducts', last'.id)
          IN /\ after # EmptyObject
             /\ \A f \in InputFields \ DOMAIN last'.input : SameField(before, after, f)
             /\ after.id = before.id
             /\ after.createdAt = before.createdAt]_vars

\* C3: a completing deleteProduct(id) removes exactly the record whose id is
\* id from the dataset as it was just before the completion and keeps every
\* other record, in order.
C3_DeleteRemovesExactlyId ==
    [][(/\ last'.op = "deleteProduct" /\ last'.phase = "done" /\ last'.outcome = "ok"
        /\ ~HasHole(mockProducts))
       => mockProducts' = SelectSeq(mockProducts, LAMBDA p : p.id # last'.id)]_vars

---------------------------------------------------------------------------
(* Properties: getProducts (checked under SpecQuery) *)

\* case-insensitive substring, stated character by character
ContainsIgnoringCase(s, sub) ==
    \E i \in 0..(Len(s) - Len(sub)) :
        \A j \in 1..Len(sub) : toLowerChar(s[i + j]) = toLowerChar(sub[j])

\* p satisfies every predicate of filters, each field that is present
\* counting as specified
SatisfiesPresent(p, filters) ==
    /\ Has(filters, "search") =>
           \/ ContainsIgnoringCase(p.name, filters.search)
           \/ Has(p, "description") /\ ContainsIgnoringCase(p.description, filters.search)
    /\ Has(filters, "category") => p.category = filters.category
    /\ Has(filters, "minPrice") => p.price >= filters.minPrice
    /\ Has(filters, "maxPrice") => p.price <= filters.maxPrice
    /\ Has(filters, "active") => p.active = filters.active

\* the same, an empty category string counting as absent
Satisfies(p, filters) ==
    SatisfiesPresent(p, IF Has(filters, "category") /\ filters.category = ""
                        THEN [f \in DOMAIN filters \ {"category"} |-> filters[f]]
                        ELSE filters)

\* the filtered set the specification describes
FilteredSet(filters) == SelectSeq(mockProducts, LAMBDA p : Satisfies(p, filters))

ListCompleted == Completed("getProducts")

\* the caller gave page >= 1 and pageSize >= 1
ValidPagination(pagination) ==
    /\ Has(pagination, "page") /\ pagination.page >= 1
    /\ Has(pagination, "pageSize") /\ pagination.pageSize >= 1

\* the least n with n * pageSize >= totalItems
IsCeil(n, totalItems, pageSize) ==
    /\ n >= 0
    /\ n * pageSize >= totalItems
    /\ (n > 0 => (n - 1) * pageSize < totalItems)

\* C4 as stated: the filtered set of getProducts is exactly the dataset
\* records that satisfy every specified predicate, in dataset order; only
\* an absent filter field imposes no constraint.
C4_FiltersAreConjunctive ==
    ListCompleted =>
        LET filtered == SelectSeq(mockProducts,
                                  LAMBDA p : SatisfiesPresent(p, last.input.filters))
        IN /\ ApplyFilters(mockProducts, last.input.filters) = filtered
           /\ last.result.totalItems = Len(filtered)

\* C4 amended: as C4, and a category given as the empty string imposes no
\* constraint either.
C4_FiltersAreConjunctiveNonEmpty ==
    ListCompleted =>
        /\ ApplyFilters(mockProducts, last.input.filters) = FilteredSet(last.input.filters)
        /\ last.result.totalItems = Len(FilteredSet(last.input.filters))

C4_Witness ==
    /\ ListCompleted
    /\ DOMAIN last.input.filters = {"category", "active", "maxPrice"}
    /\ last.input.filters.category = ""
    /\ last.input.filters.active
    /\ last.result.totalItems = 4

\* C5: for page >= 1 and pageSize >= 1, totalItems is the size of the
\* filtered set, totalPages = ceil(totalItems / pageSize), and data is the
\* filtered set at positions [(page-1)*pageSize, page*pageSize).
C5_PageSlice ==
    (ListCompleted /\ ValidPagination(last.input.pagination)) =>
        LET page == last.input.pagination.page
            pageSize == last.input.pagination.pageSize
            filtered == FilteredSet(last.input.filters)
            r == last.result
            positions == {k \in 1..Len(filtered) :
                            (page - 1) * pageSize < k /\ k <= page * pageSize}
        IN /\ r.totalItems = Len(filtered)
           /\ IsCeil(r.totalPages, r.totalItems, pageSize)
           /\ Len(r.data) = Cardinality(positions)
           /\ \A k \in 1..Len(r.data) : r.data[k] = filtered[(page - 1) * pageSize + k]
           /\ Len(r.data) <= pageSize

C5_Witness ==
    /\ ListCompleted
    /\ ValidPagination(last.input.pagination)
    /\ last.input.pagination.page = 3
    /\ last.input.pagination.pageSize = 3
    /\ Len(last.result.data) = 2
    /\ last.result.totalPages = 3

\* C6: for page >= 1 and pageSize >= 1, hasNext is true iff page < totalPages
\* and hasPrevious is true iff page > 1, also past the last page and on an
\* empty filtered set.
C6_HasNextHasPrevious ==
    (ListCompleted /\ ValidPagination(last.input.pagination)) =>
        LET page == last.input.pagination.page
            pageSize == last.input.pagination.pageSize
            total == Len(FilteredSet(last.input.filters))
        IN /\ last.result.hasNext <=> (\E n \in 0..total : IsCeil(n, total, pageSize) /\ page < n)
           /\ last.result.hasPrevious <=> (page > 1)

C6_Witness ==
    /\ ListCompleted
    /\ ValidPagination(last.input.pagination)
    /\ last.input.pagination.page > last.result.totalPages
    /\ last.result.totalItems = 0
    /\ ~last.result.hasNext
    /\ last.result.hasPrevious

\* C7: getProducts called with pagination.page < 1 fails with an ApiError of
\* statusCode 400 and returns no page.
C7_PageBelowOneRejected ==
    (/\ last.op = "getProducts" /\ last.phase = "done"
     /\ Has(last.input.pagination, "page") /\ last.input.pagination.page < 1)
    => /\ last.outcome = "error"
       /\ last.error.kind = "ApiError"
       /\ last.error.statusCode = 400

---------------------------------------------------------------------------
(* Properties: createProduct (checked under SpecCreate) *)

Called(op) == last.op = op /\ last.phase = "call"

IsCategory(c) == c \in {"ELETRONICOS", "ROUPAS", "CASA", "ESPORTES", "LIVROS", "OUTROS"}

NameOk(data) ==
    /\ Has(data, "name")
    /\ \E i \in DOMAIN data.name : data.name[i] # " "
    /\ Len(data.name) >= 3
    /\ Len(data.name) <= 200

\* the name rule with both limits taken on the trimmed name
NameOkTrimmed(data) ==
    /\ Has(data, "name")
    /\ Len(trim(data.name)) >= 3
    /\ Len(trim(data.name)) <= 200

PriceOk(data) == Has(data, "price") /\ 0 <= data.price /\ data.price <= 99999999

CategoryOk(data) == Has(data, "category") /\ IsCategory(data.category)

DescriptionOk(data) == Has(data, "description") => Len(data.description) <= 1000

ValidationFailed400 ==
    /\ last.outcome = "error"
    /\ last.error.kind = "ApiError"
    /\ last.error.statusCode = 400
    /\ last.error.message = "Validation Failed"

\* C8 as stated: createProduct succeeds iff the name's trimmed length is
\* between 3 and 200, 0 <= price <= 999999.99, category is in the
\* enumeration and description has at most 1000 characters; otherwise it
\* fails with ValidationFailed (400).
C8_CreateSucceedsIffValidTrimmed ==
    Called("createProduct") =>
        IF NameOkTrimmed(last.input) /\ PriceOk(last.input) /\ CategoryOk(last.input)
           /\ DescriptionOk(last.input)
        THEN last.outcome = "pending"
        ELSE ValidationFailed400

\* C8 amended: as C8, with the name rule read as the code applies it: the
\* name is not blank and its length as given (not trimmed) is between 3
\* and 200.
C8_CreateSucceedsIffValid ==
    Called("createProduct") =>
        IF NameOk(last.input) /\ PriceOk(last.input) /\ CategoryOk(last.input)
           /\ DescriptionOk(last.input)
        THEN last.outcome = "pending"
        ELSE ValidationFailed400

C8_Witness ==
    /\ Called("createProduct")
    /\ last.outcome = "pending"
    /\ Has(last.input, "name")
    /\ Len(last.input.name) = 3
    /\ Len(trim(last.input.name)) = 2

ViolatedFields(data) ==
    {f \in {"name", "price", "category", "description"} :
        \/ f = "name" /\ ~NameOk(data)
        \/ f = "price" /\ ~PriceOk(data)
        \/ f = "category" /\ ~CategoryOk(data)
        \/ f = "description" /\ ~DescriptionOk(data)}

\* C9: when the input of createProduct violates rules on k fields among
\* name, price, category and description, the ValidationFailed error lists
\* k distinct messages, one for each violated field.
C9_OneMessagePerViolatedField ==
    (Called("createProduct") /\ ViolatedFields(last.input) # {}) =>
        /\ ValidationFailed400
        /\ Len(last.error.details) = Cardinality(ViolatedFields(last.input))
        /\ \A i, j \in DOMAIN last.error.details :
               i # j => last.error.details[i] # last.error.details[j]

C9_Witness ==
    /\ Called("createProduct")
    /\ last.input = [name |-> <<"a", "b">>, price |-> -1, category |-> "INVALID"]
    /\ Len(last.error.details) = 3

\* C10: after createProduct(input) completes returning p, getProductById(p.id)
\* returns a record with input's name, description, price, category and
\* imageUrl, active = input.active (true when absent), the next sequential
\* id, and createdAt equal to updatedAt.
C10_CreateRoundTrip ==
    Completed("createProduct") =>
        LET r == find(mockProducts, last.result.id)
        IN /\ ~findIndexThrows(mockProducts, last.result.id)
           /\ r # EmptyObject
           /\ \A f \in {"name", "description", "price", "category", "imageUrl"} :
                  SameField(last.input, r, f)
           /\ r.active = (IF Has(last.input, "active") THEN last.input.active ELSE TRUE)
           /\ r.id = nextId - 1
           /\ r.createdAt = r.updatedAt

---------------------------------------------------------------------------
(* Properties: the contracts of getProductById, updateProduct and
   deleteProduct (checked under Spec and SpecStale) *)

\* the step being taken is the call of op / the completion of op
CallOf(op) == last'.op = op /\ last'.phase = "call"
DoneOf(op) == last'.op = op /\ last'.phase = "done"

\* the positions of arr that hold a record whose id is id
WithId(arr, id) == {i \in DOMAIN arr : ~IsHole(arr[i]) /\ arr[i].id = id}

\* C11: getProductById(id) fails with statusCode 400 when id < 1; for id >= 1
\* the call returns an Observable whose outcome is fixed by the dataset at
\* the call: statusCode 404 when no record has that id, otherwise the record
\* with that id; so a call that directly follows a call with the same id
\* (no mutation completing in between) returns an equal result.
C11_GetProductById ==
    [][/\ CallOf("getProductById") =>
              IF last'.id < 1
              THEN /\ last'.outcome = "error"
                   /\ last'.error.statusCode = 400
              ELSE /\ last'.outcome = "pending"
                   /\ \E op \in pending' \ pending :
                          IF WithId(mockProducts, last'.id) = {}
                          THEN op.product = EmptyObject
                          ELSE \E i \in WithId(mockProducts, last'.id) :
                                   op.product = mockProducts[i]
       /\ DoneOf("getProductById") =>
              \E op \in pending \ pending' :
                  IF op.product = EmptyObject
                  THEN /\ last'.outcome = "error"
                       /\ last'.error.statusCode = 404
                  ELSE /\ last'.outcome = "ok"
                       /\ last'.result = op.product
                       /\ last'.result.id = last'.id
       /\ (/\ last.op = "getProductById" /\ last.phase = "call" /\ last.outcome = "pending"
           /\ CallOf("getProductById") /\ last'.id = last.id /\ last'.n # last.n) =>
              /\ last'.outcome = "pending"
              /\ \A first \in pending, second \in pending' \ pending :
                     first.n = last.n => second.product = first.product
      ]_vars

\* C12: updateProduct(id, {}) on an existing id succeeds, and its completion
\* leaves every field of the record unchanged except updatedAt, which becomes
\* strictly greater; the record keeps its position and no other record
\* changes.
C12_EmptyUpdate ==
    [][(/\ last'.op = "updateProduct" /\ last'.input = EmptyObject
        /\ ~HasHole(mockProducts)
        /\ WithId(mockProducts, last'.id) # {})
       => IF last'.phase = "call"
          THEN last'.outcome = "pending"
          ELSE /\ last'.outcome = "ok"
               /\ Len(mockProducts') = Len(mockProducts)
               /\ \A i \in DOMAIN mockProducts :
                      LET before == mockProducts[i]
                          after == mockProducts'[i]
                      IN IF i \in WithId(mockProducts, last'.id)
                         THEN /\ DOMAIN after = DOMAIN before
                              /\ \A f \in DOMAIN before \ {"updatedAt"} : after[f] = before[f]
                              /\ DateLt(before.updatedAt, after.updatedAt)
                         ELSE after = before
      ]_vars

\* C13: updateProduct(id, input) with id >= 1 that no record has fails with
\* statusCode 404 whatever the input, and leaves the dataset unchanged.
C13_UpdateAbsentIdNotFound ==
    [][(/\ CallOf("updateProduct") /\ last'.n # last.n
        /\ last'.id >= 1
        /\ WithId(mockProducts, last'.id) = {})
       => /\ last'.outcome = "error"
          /\ last'.error.statusCode = 404
          /\ mockProducts' = mockProducts
      ]_vars

\* C14: deleteProduct(id) fails with statusCode 400 when id < 1 and with
\* statusCode 404 when no record has that id, the dataset unchanged in both
\* cases; once a deleteProduct(id) has completed, the dataset (which
\* getProductById and getProducts read) holds no record with that id, a
\* getProductById(id) called next is bound to fail with NotFound, and a list
\* completing next contains no record with that id.
C14_Delete ==
    [][/\ (CallOf("deleteProduct") /\ last'.n # last.n /\ last'.id < 1) =>
              /\ last'.outcome = "error"
              /\ last'.error.statusCode = 400
              /\ mockProducts' = mockProducts
       /\ (/\ CallOf("deleteProduct") /\ last'.n # last.n /\ last'.id >= 1
           /\ WithId(mockProducts, last'.id) = {}) =>
              /\ last'.outcome = "error"
              /\ last'.error.statusCode = 404
              /\ mockProducts' = mockProducts
       /\ (DoneOf("deleteProduct") /\ last'.outcome = "ok") =>
              WithId(mockProducts', last'.id) = {}
       /\ (Completed("deleteProduct") /\ CallOf("getProductById") /\ last'.id = last.id) =>
              \E op \in pending' \ pending : op.product = EmptyObject
       /\ (Completed("deleteProduct") /\ DoneOf("getProducts") /\ last'.outcome = "ok") =>
              \A i \in DOMAIN last'.result.data :
                  IsHole(last'.result.data[i]) \/ last'.result.data[i].id # last.id
      ]_vars

---------------------------------------------------------------------------
(* Properties: failures (checked under Spec) *)

Failed == last'.outcome \in {"error", "thrown"}

\* C15 (ProductMockService): a failing operation leaves products$, loading$
\* and the dataset as they were just before the call: a call that fails
\* before it returns changes none of them, a failure delivered at completion
\* changes neither products$ nor the dataset, and when the failing operation
\* is the only one ever called all three are as after construction.
C15_FailureLeavesStateUnchanged ==
    [][/\ (last'.phase = "call" /\ Failed /\ last'.n # last.n) =>
              /\ productsSubject' = productsSubject
              /\ loadingSubject' = loadingSubject
              /\ mockProducts' = mockProducts
       /\ (last'.phase = "done" /\ Failed /\ pending' # pending) =>
              /\ productsSubject' = productsSubject
              /\ mockProducts' = mockProducts
              /\ nCalls = 1 => /\ productsSubject' = seedProducts
                               /\ loadingSubject' = FALSE
                               /\ mockProducts' = seedProducts
      ]_vars

---------------------------------------------------------------------------
(* Properties: the seed (checked under SpecQuery) *)

\* a list on the dataset as constructed, with exactly these filters and no
\* pagination given
SeedList(filters) ==
    /\ ListCompleted
    /\ mockProducts = seedProducts
    /\ last.input.filters = filters
    /\ last.input.pagination = EmptyObject

ActiveOnly == [active |-> TRUE]
ActiveElectronics == [category |-> "ELETRONICOS", active |-> TRUE]

\* C16 as stated: on the seed, {active: true} returns 7 items and
\* {category: ELETRONICOS, active: true} returns exactly 3 items.
C16_SeedCountsThree ==
    /\ SeedList(ActiveOnly) =>
           last.result.totalItems = 7 /\ Len(last.result.data) = 7
    /\ SeedList(ActiveElectronics) =>
           last.result.totalItems = 3 /\ Len(last.result.data) = 3

\* C16 amended: on the seed, {active: true} returns 7 items and
\* {category: ELETRONICOS, active: true} returns exactly 4 items, the
\* records with ids 1 to 4.
C16_SeedCounts ==
    /\ SeedList(ActiveOnly) =>
           last.result.totalItems = 7 /\ Len(last.result.data) = 7
    /\ SeedList(ActiveElectronics) =>
           /\ last.result.totalItems = 4
           /\ last.result.data = <<Seed1, Seed2, Seed3, Seed4>>

C16_Witness ==
    /\ SeedList(ActiveElectronics)
    /\ Len(last.result.data) = 4
    /\ Len(seedProducts) = 8
    /\ Cardinality({i \in DOMAIN seedProducts : ~seedProducts[i].active}) = 1

---------------------------------------------------------------------------
(* Properties: ProductApiService (checked under SpecApi) *)

\* the step being taken acts on op, a call that was awaiting a response
ActsOn(op) == op \in inFlight /\ op.n = apiLast'.n /\ apiLast'.phase # "call"

\* the step sends one more request of op and delivers nothing to the caller
Resent(op) ==
    /\ httpSent' = [httpSent EXCEPT ![op.method] = @ + 1]
    /\ apiLast'.outcome = "pending"
    /\ \E o \in inFlight' : o.n = op.n /\ o.sent = op.sent + 1

\* the step ends op: no request is sent and no later step can act on op
Ended(op) ==
    /\ httpSent' = httpSent
    /\ \A o \in inFlight' : o.n # op.n

\* C17: getProducts re-sends its GET after each failed attempt, whatever the
\* failure, up to 2 additional attempts: after the third failure no request
\* is sent and one error is delivered; when an attempt succeeds no further
\* request is sent and the page's data is the value of products$.
C17_ListRetriesTwice ==
    [][/\ \A op \in inFlight' : op.kind = "getProducts" => op.sent \in 1..3
       /\ \A op \in inFlight :
              (op.kind = "getProducts" /\ ActsOn(op)) =>
                  IF apiLast'.failure # EmptyObject
                  THEN IF op.sent < 3
                       THEN Resent(op)
                       ELSE /\ Ended(op)
                            /\ apiLast'.outcome = "error"
                            /\ apiLast'.sent = 3
                  ELSE /\ Ended(op)
                       /\ apiLast'.outcome = "ok"
                       /\ apiProductsSubject' = apiLast'.result.data
      ]_vars

C17_Witness ==
    /\ apiLast.op = "getProducts"
    /\ apiLast.outcome = "error"
    /\ apiLast.sent = 3
    /\ apiLast.failure = HttpErrorResponse("404", [text |-> "Not Found"])
    /\ apiLast.error.message = <<"Recurso não encontrado.">>

\* C18: getProductById sends at most 2 requests per call (one retry after a
\* failure); createProduct, updateProduct and deleteProduct send exactly 1;
\* when the last allowed attempt fails one error is delivered and nothing is
\* sent.
C18_GetRetriesOnceMutationsNever ==
    [][/\ (apiLast'.phase = "call" /\ apiLast'.n # apiLast.n) =>
              \E m \in Methods : httpSent' = [httpSent EXCEPT ![m] = @ + 1]
       /\ \A op \in inFlight' :
              /\ op.kind = "getProductById" => op.sent \in 1..2
              /\ op.kind \in {"createProduct", "updateProduct", "deleteProduct"} => op.sent = 1
       /\ \A op \in inFlight :
              (op.kind # "getProducts" /\ ActsOn(op)) =>
                  LET allowed == IF op.kind = "getProductById" THEN 2 ELSE 1
                  IN IF apiLast'.failure # EmptyObject
                     THEN IF op.sent < allowed
                          THEN Resent(op)
                          ELSE /\ Ended(op)
                               /\ apiLast'.outcome = "error"
                               /\ apiLast'.sent = allowed
                     ELSE /\ Ended(op)
                          /\ apiLast'.outcome = "ok"
                          /\ apiLast'.sent <= allowed
      ]_vars

C18_Witness ==
    /\ apiLast.op = "getProductById"
    /\ apiLast.outcome = "error"
    /\ apiLast.sent = 2
    /\ httpSent["GET"] = 2

\* C19: a successful createProduct appends the returned product at the end
\* of the list held by products$, a successful updateProduct(id) replaces
\* the cached element with that id by the returned product at the same
\* position, a successful deleteProduct(id) removes every cached element
\* with that id; every other element is unchanged and no request is sent.
C19_CacheFollowsMutations ==
    [][\A op \in inFlight :
           (ActsOn(op) /\ apiLast'.outcome = "ok") =>
               LET old == apiProductsSubject
                   new == apiProductsSubject'
                   returned == apiLast'.result
               IN /\ httpSent' = httpSent
                  /\ op.kind = "createProduct" =>
                         /\ Len(new) = Len(old) + 1
                         /\ new[Len(new)] = returned
                         /\ \A i \in DOMAIN old : new[i] = old[i]
                  /\ op.kind = "updateProduct" =>
                         /\ Len(new) = Len(old)
                         /\ IF \E i \in DOMAIN old : old[i].id = op.id
                            THEN \E i \in DOMAIN old :
                                     /\ old[i].id = op.id
                                     /\ new[i] = returned
                                     /\ \A j \in DOMAIN old \ {i} : new[j] = old[j]
                            ELSE new = old
                  /\ op.kind = "deleteProduct" =>
                         new = SelectSeq(old, LAMBDA p : p.id # op.id)
      ]_vars

C19_Witness ==
    /\ apiLast.op = "updateProduct"
    /\ apiLast.outcome = "ok"
    /\ Len(apiProductsSubject) = 2
    /\ apiProductsSubject[1].id # apiLast.id
    /\ apiProductsSubject[2] = apiLast.result
    /\ httpSent["GET"] = 1

\* the Error has the shape handleError gives a failure it does not know:
\* `Erro ${status}: ${message}`
IsUnknownError(e) == Len(e.message) = 4 /\ e.message[1] = "Erro "

\* C20: when a request gets no response within the timeout, the call is
\* re-sent while its retry budget lasts (2 for list, 1 for get, 0 for
\* create/update/delete); once it is used up nothing is sent and the call
\* fails with a Timeout error, which is not an Unknown error.
C20_TimeoutIsNotUnknown ==
    [][\A op \in inFlight :
           (ActsOn(op) /\ apiLast'.failure = TimeoutError) =>
               LET budget == CASE op.kind = "getProducts" -> 2
                               [] op.kind = "getProductById" -> 1
                               [] OTHER -> 0
               IN IF op.sent <= budget
                  THEN Resent(op)
                  ELSE /\ Ended(op)
                       /\ apiLast'.outcome = "error"
                       /\ ~IsUnknownError(apiLast'.error)
      ]_vars

---------------------------------------------------------------------------
(* Properties: products$, loading$ and the id counter of ProductMockService *)

\* C27: a getProducts that completes with success leaves products$ holding
\* the returned page; a createProduct, updateProduct or deleteProduct that
\* completes leaves it holding the whole dataset as it is at that
\* completion; no other step publishes, so when all operations in flight
\* have completed products$ holds what the last of them published.
C27_ProductsFollowsLastCompletion ==
    [][IF last'.phase = "done" /\ last'.outcome = "ok" /\ last'.op # "getProductById"
       THEN IF last'.op = "getProducts"
            THEN productsSubject' = last'.result.data
            ELSE productsSubject' = mockProducts'
       ELSE productsSubject' = productsSubject
      ]_vars

\* a page was published after a mutation had published the dataset, and
\* nothing is in flight any more
C27_Witness ==
    /\ pending = {}
    /\ nCalls = 2
    /\ Completed("getProducts")
    /\ Len(mockProducts) = Len(seedProducts) - 1
    /\ productsSubject = last.result.data
    /\ productsSubject # mockProducts

\* C28: loading$ holds true whenever an operation has been issued and has
\* neither completed nor failed, and false once every issued operation has.
C28_LoadingWhileInFlight == loadingSubject = (pending # {})

\* C29: createProduct gives the new product the value of the id counter and
\* advances the counter by one; the counter starts at 9 and no other step
\* changes it, not a createProduct that fails validation and not a
\* deleteProduct; so the id given is greater than the id of every record
\* and of every product being created, and the record appended at
\* completion carries it.
C29_IdsIncreaseNeverReused ==
    [][/\ nCalls = 0 => nextId = 9
       /\ IF CallOf("createProduct") /\ last'.outcome = "pending" /\ last'.n = nCalls + 1
          THEN /\ nextId' = nextId + 1
               /\ \E op \in pending' \ pending : op.product.id = nextId
               /\ \A op \in pending : op.kind = "createProduct" => op.product.id < nextId
               /\ \A i \in DOMAIN mockProducts :
                      ~IsHole(mockProducts[i]) => mockProducts[i].id < nextId
          ELSE nextId' = nextId
       /\ (DoneOf("createProduct") /\ Len(mockProducts') = Len(mockProducts) + 1) =>
              /\ mockProducts'[Len(mockProducts')].id = last'.id
              /\ last'.id < nextId
              /\ \A i \in DOMAIN mockProducts :
                     ~IsHole(mockProducts[i]) => mockProducts[i].id # last'.id
      ]_vars

\* a product was created, then deleted, and the next product created has
\* the following id
C29_Witness ==
    /\ Completed("createProduct")
    /\ last.id = FirstId + 1
    /\ Len(mockProducts) = Len(seedProducts) + 1
    /\ FirstId \notin Ids(mockProducts)
    /\ nextId = FirstId + 2

\* C22: a create, update or delete that was issued and passed its checks
\* eventually changes the dataset and publishes it on products$, also when
\* its subscriber has left before the delay elapsed.
C22_IssuedMutationCompletes ==
    \A n \in 1..MaxCancelOps :
        (\E op \in pending : op.n = n)
            ~> (last.n = n /\ last.phase = "done" /\ last.outcome = "ok")

---------------------------------------------------------------------------
(* Properties: ProductListComponent (checked under SpecList) *)

\* the step being taken is the answer to req, a subscription of the component
Answers(req, op, phases) ==
    /\ req \in requests
    /\ req \notin requests'
    /\ listLast'.n = req.n
    /\ listLast'.op = op
    /\ listLast'.phase \in phases

\* C23: when the list call of loadProducts fails, or gives no answer within
\* 5 seconds, the component is left with products = [], totalItems = 0 and
\* loading = false, one error notification is shown, the error is caught
\* and no call is issued.
C23_FailedLoadShowsEmptyPage ==
    [][\A req \in requests :
           Answers(req, "loadProducts", {"error", "timeout"}) =>
               /\ listProducts' = <<>>
               /\ listTotalItems' = 0
               /\ listLoading' = FALSE
               /\ Len(notifications') = Len(notifications) + 1
               /\ notifications'[Len(notifications')].type = "error"
               /\ SubSeq(notifications', 1, Len(notifications)) = notifications
               /\ listLast'.outcome = "caught"
               /\ requests' = requests \ {req}
      ]_vars

\* two loads have been answered, one with a page and the last one not at all
C23_Witness ==
    /\ listLast.op = "loadProducts"
    /\ listLast.phase = "timeout"
    /\ nListCalls = 2
    /\ requests = {}
    /\ notifications =
           <<[type |-> "error", message |-> <<"Tempo limite excedido ao carregar produtos">>]>>
    /\ listProducts = <<>>
    /\ listTotalItems = 0
    /\ ~listLoading

\* C24: when deleteProduct fails the component shows an error notification,
\* sets loading = false, leaves products and totalItems as they are and
\* issues no call; when it succeeds the component shows the success
\* notification and issues exactly one getProducts.
C24_DeleteOutcome ==
    [][\A req \in requests :
           /\ Answers(req, "deleteProduct", {"error"}) =>
                  /\ Len(notifications') = Len(notifications) + 1
                  /\ notifications'[Len(notifications')].type = "error"
                  /\ listLoading' = FALSE
                  /\ listProducts' = listProducts
                  /\ listTotalItems' = listTotalItems
                  /\ requests' = requests \ {req}
                  /\ nListCalls' = nListCalls
           /\ Answers(req, "deleteProduct", {"next"}) =>
                  /\ notifications' =
                         Append(notifications,
                                [type |-> "success",
                                 message |-> <<"Produto excluído com sucesso!">>])
                  /\ nListCalls' = nListCalls + 1
                  /\ \E reload \in requests' :
                         /\ requests' = (requests \ {req}) \cup {reload}
                         /\ reload \notin requests
                         /\ reload.kind = "getProducts"
                         /\ reload.pagination.page = currentPage
                  /\ listProducts' = listProducts
                  /\ listTotalItems' = listTotalItems
      ]_vars

\* a page is displayed, a deletion has succeeded and its reload is awaited
C24_Witness ==
    /\ listLast.op = "deleteProduct"
    /\ listLast.phase = "next"
    /\ Len(listProducts) = 1
    /\ notifications = <<[type |-> "success", message |-> <<"Produto excluído com sucesso!">>]>>
    /\ \E reload \in requests : requests = {reload} /\ reload.n = nListCalls

\* C30: when the last of several overlapping loadProducts requests has been
\* answered, what is displayed is the answer to the most recently issued
\* one, in whatever order the answers arrived.
C30_LatestRequestWins ==
    [][\A req \in requests :
           (/\ Answers(req, "loadProducts", {"next", "error", "timeout"})
            /\ \A other \in requests' : other.kind # "getProducts")
               => /\ listProducts' = [i \in DOMAIN lastLoad'.page.data |->
                                          Shown(lastLoad'.page.data[i])]
                  /\ listTotalItems' = lastLoad'.page.totalItems
      ]_vars

---------------------------------------------------------------------------
(* Properties: HttpRequestInterceptor and LoadingService (checked under
   SpecIntercept) *)

\* the step being taken is the failure of r, a request inside the interceptor
FailureOf(r) ==
    /\ r \in intercepted
    /\ ~r.waiting
    /\ icLast'.n = r.n
    /\ icLast'.phase \in {"backoff", "error"}

\* the failure is passed to the caller as one enriched error; nothing is sent
Delivered(r) ==
    /\ icLast'.phase = "error"
    /\ Has(icLast'.error, "friendlyMessage")
    /\ handled' = handled
    /\ \A q \in intercepted' : q.n # r.n

\* C25: a failure with a status from 400 to 499 is never tried again; a
\* network error is tried again at most 2 times, after 1000 ms the first
\* time and 2000 ms the second; no other failure is tried again; when the
\* request is not tried again one enriched error is delivered.
C25_RetriesOnlyNetworkErrors ==
    [][\A r \in intercepted :
           FailureOf(r) =>
               LET status == icLast'.error.status
               IN IF status >= 400 /\ status <= 499
                  THEN Delivered(r)
                  ELSE IF status = 0
                  THEN IF icLast'.index < 2
                       THEN /\ icLast'.phase = "backoff"
                            /\ icLast'.delayTime = IF icLast'.index = 0 THEN 1000 ELSE 2000
                            /\ handled' = handled
                       ELSE Delivered(r)
                  ELSE Delivered(r)
      ]_vars

\* C26: requestCount >= 0 and isLoading$ holds requestCount > 0; a request
\* entering the interceptor is counted once, a request leaving it (answered,
\* failed or unsubscribed) is discounted once, and waiting and retrying do
\* not count; so isLoading$ holds true exactly while a request is inside the
\* interceptor, also after reset().
C26_LoadingCountsRequests ==
    [][/\ requestCount' >= 0
       /\ isLoadingSubject' = (requestCount' > 0)
       /\ icLast'.phase = "intercept" /\ icLast'.n = nIntercepted + 1 =>
              requestCount' = requestCount + 1
       /\ \A r \in intercepted :
              icLast'.n = r.n =>
                  IF \E q \in intercepted' : q.n = r.n
                  THEN requestCount' = requestCount
                  ELSE requestCount' = Max({0, requestCount - 1})
       /\ isLoadingSubject' = (intercepted' # {})
      ]_vars

---------------------------------------------------------------------------
(* Properties: the two services side by side (checked under SpecPair) *)

\* both services have completed the same call with success
BothCompleted ==
    /\ last.n > 0
    /\ pending = {}
    /\ inFlight = {}
    /\ last.phase = "done" /\ last.outcome = "ok"
    /\ apiLast.phase = "done" /\ apiLast.outcome = "ok"
    /\ apiLast.op = last.op

\* C21: after each call of a sequence of successful list, create, update and
\* delete calls made one after another on both services, the backend holding
\* the records of the mock dataset, the two services have returned equal
\* results and their products$ hold equal lists.
C21_ServicesAgree ==
    BothCompleted =>
        /\ apiLast.result = last.result
        /\ apiProductsSubject = productsSubject

---------------------------------------------------------------------------
(* Inputs *)

Text(c, n) == [i \in 1..n |-> c]

\* Spec: a few calls of every operation, overlapping freely
SpecFilters == {EmptyObject, [active |-> TRUE]}
SpecPaginations == {EmptyObject, [page |-> 2, pageSize |-> 3], [page |-> -1]}
SpecGetIds == {0, 2, FirstId, 99}
SpecCreateInputs ==
    {[name |-> <<"C", "a", "n", "e", "t", "a">>, price |-> 500, category |-> "OUTROS"],
     [name |-> <<"a", "b">>, price |-> -1, category |-> "INVALID"]}
SpecUpdates ==
    ({0, 2, 8, 99} \X {EmptyObject, [name |-> <<"N", "o", "v", "o">>]})
        \cup {<<2, [price |-> 500]>>, <<2, [price |-> -1]>>, <<99, [price |-> -1]>>}
SpecDeleteIds == {0, 1, 2, 99}

\* SpecQuery: updates, then one getProducts over every combination of
\* filters and pagination below, on the seed and on the datasets they leave
Optional(key, values) == {EmptyObject} \cup {[k \in {key} |-> v] : v \in values}
Objects(A, B) == {Spread(a, b) : a \in A, b \in B}

QueryFilters ==
    Objects(Optional("category", {"", "ELETRONICOS"}),
    Objects(Optional("minPrice", {12990}),
    Objects(Optional("maxPrice", {65990}),
    Objects(Optional("active", {TRUE, FALSE}),
            Optional("search", {<<>>, <<"C", "O">>})))))
QueryPaginations ==
    Objects(Optional("page", {-1, 0, 1, 2, 3}), Optional("pageSize", {3, 8}))
QueryUpdates == {<<1, [description |-> <<>>]>>}

\* SpecCreate: one createProduct over every combination below, then
\* getProductById
CreateNames ==
    {<<>>, <<" ", " ", " ">>, <<"a", "b">>, <<"a", "b", " ">>, <<"a", "b", "c">>,
     <<" ", "A", "b", "c", " ">>, Text("n", MaxNameLength), Text("n", MaxNameLength + 1)}
CreateDescriptions ==
    {<<>>, <<"d", "e", "s", "c">>, Text("d", MaxDescriptionLength),
     Text("d", MaxDescriptionLength + 1)}
CreateInputs ==
    Objects(Optional("name", CreateNames),
    Objects(Optional("price", {-1, 0, 1990, MaxPrice, MaxPrice + 1}),
    Objects(Optional("category", {"", "INVALID", "LIVROS", "OUTROS"}),
    Objects(Optional("description", CreateDescriptions),
    Objects(Optional("active", {TRUE, FALSE}),
            Optional("imageUrl", {"https://example.com/image.jpg"}))))))
CreateGetIds == {0, 8, FirstId, FirstId + 1}

\* SpecStale
StaleDeleteIds == {1, 2}
StaleUpdates == {<<8, EmptyObject>>}
StaleGetIds == {0, 2, 8, 99}

\* SpecIds: creations and deletions of the created products
IdDeleteIds == {8, FirstId, FirstId + 1}

\* SpecCancel: mutations whose subscriber may leave
CancelUpdates == {<<2, [price |-> 500]>>}
CancelDeleteIds == {1}

\* SpecList: what the user does with the list, and what the service answers
ListPages == {2}
ListFormValues ==
    {[search |-> <<" ", "a">>, category |-> "", active |-> "false", minPrice |-> 0]}
ListDeleteIds == {1}
ListFailures == {PlainError(<<"Recurso não encontrado.">>)}
\* the page the service answers a request with
ListAnswer(req) ==
    LET page == req.pagination.page
        active == IF Has(req.filters, "active") THEN req.filters.active ELSE TRUE
    IN [data |-> <<[id |-> page, name |-> "a", active |-> active]>>,
        currentPage |-> page, pageSize |-> req.pagination.pageSize,
        totalItems |-> 10 + page, totalPages |-> 2, hasNext |-> page < 2,
        hasPrevious |-> page > 1]

\* SpecIntercept: requests through the interceptor and what the next handler
\* fails with
InterceptMethods == {"GET", "POST"}
HandlerFailures ==
    {HandlerError(0, "Unknown Error", ErrorEvent("Failed to fetch")),
     HandlerError(0, "Unknown Error", [type |-> "error"]),
     HandlerError(404, "Not Found", EmptyObject),
     HandlerError(422, "", [message |-> "Nome é obrigatório"]),
     HandlerError(500, "Internal Server Error", EmptyObject),
     HandlerError(418, "", EmptyObject)}

\* SpecPair: the calls made on both services
PairQueries ==
    {<<EmptyObject, EmptyObject>>, <<[active |-> TRUE], [page |-> 2, pageSize |-> 3]>>}
PairCreateInputs ==
    {[name |-> <<"C", "a", "n", "e", "t", "a">>, price |-> 500, category |-> "OUTROS"]}
PairUpdates == {<<2, [price |-> 500]>>, <<8, EmptyObject>>}
PairDeleteIds == {1}

\* SpecApi: calls of ProductApiService, and what the backend and the
\* network answer to each request
ApiProduct(id, name) == [id |-> id, name |-> name]
ApiQueries ==
    {<<EmptyObject, EmptyObject>>,
     <<[search |-> <<" ", "a", " ">>, active |-> FALSE], [page |-> 2, pageSize |-> 20]>>}
ApiIds == {1, 2}
ApiInputs == {[name |-> "b"]}
ServerPages == {<<>>, <<ApiProduct(1, "a"), ApiProduct(2, "a")>>}
ServerNewIds == {3}
ServerPage(data) ==
    [data |-> data, currentPage |-> 1, pageSize |-> 10, totalItems |-> Len(data),
     totalPages |-> 1, hasNext |-> FALSE, hasPrevious |-> FALSE]
Failures ==
    {TimeoutError,
     HttpErrorResponse("0", ErrorEvent("Failed to fetch")),
     HttpErrorResponse("404", [text |-> "Not Found"]),
     HttpErrorResponse("418", EmptyObject)}

---------------------------------------------------------------------------
(* Specifications *)

Done ==
    \E op \in pending :
        \/ GetProductsDone(op)
        \/ GetProductByIdDone(op)
        \/ CreateProductDone(op)
        \/ UpdateProductDone(op)
        \/ DeleteProductDone(op)

Next ==
    \/ /\ nCalls < MaxOps
       /\ \/ \E f \in SpecFilters, p \in SpecPaginations : GetProductsCall(f, p)
          \/ \E id \in SpecGetIds : GetProductByIdCall(id)
          \/ \E data \in SpecCreateInputs : CreateProductCall(data)
          \/ \E u \in SpecUpdates : UpdateProductCall(u[1], u[2])
          \/ \E id \in SpecDeleteIds : DeleteProductCall(id)
    \/ Done

Spec == Init /\ [][Next]_vars

NextQuery ==
    \/ /\ nCalls < MaxQueryOps - 1
       /\ \E u \in QueryUpdates : UpdateProductCall(u[1], u[2])
    \/ /\ nCalls = MaxQueryOps - 1
       /\ \E f \in QueryFilters, p \in QueryPaginations : GetProductsCall(f, p)
    \/ \E op \in pending :
        \/ GetProductsDone(op)
        \/ UpdateProductDone(op)

SpecQuery == Init /\ [][NextQuery]_vars

NextCreate ==
    \/ /\ nCalls = 0
       /\ \E data \in CreateInputs : CreateProductCall(data)
    \/ /\ nCalls > 0
       /\ nCalls < MaxQueryOps
       /\ \E id \in CreateGetIds : GetProductByIdCall(id)
    \/ \E op \in pending :
        \/ CreateProductDone(op)
        \/ GetProductByIdDone(op)

SpecCreate == Init /\ [][NextCreate]_vars

\* SpecStale: deletes and an update of the last record that overlap, so that
\* the update's index, taken at its call, lies past the end of the array when
\* it is written; then reads by id
NextStale ==
    \/ /\ nCalls < MaxStaleOps
       /\ \/ \E id \in StaleDeleteIds : DeleteProductCall(id)
          \/ \E u \in StaleUpdates : UpdateProductCall(u[1], u[2])
          \/ \E id \in StaleGetIds : GetProductByIdCall(id)
    \/ \E op \in pending :
        \/ DeleteProductDone(op)
        \/ UpdateProductDone(op)
        \/ GetProductByIdDone(op)

SpecStale == Init /\ [][NextStale]_vars

\* SpecIds: products are created and deleted, the calls overlapping freely
NextIds ==
    \/ /\ nCalls < MaxIdOps
       /\ \/ \E data \in SpecCreateInputs : CreateProductCall(data)
          \/ \E id \in IdDeleteIds : DeleteProductCall(id)
    \/ \E op \in pending :
        \/ CreateProductDone(op)
        \/ DeleteProductDone(op)

SpecIds == Init /\ [][NextIds]_vars

\* SpecCancel: mutations are issued; each either runs its callbacks when its
\* delay elapses or is unsubscribed from before that.  A timer that was set
\* and is not cancelled fires.
Elapses(n) ==
    \E op \in pending :
        /\ op.n = n
        /\ \/ CreateProductDone(op)
           \/ UpdateProductDone(op)
           \/ DeleteProductDone(op)

NextCancel ==
    \/ /\ nCalls < MaxCancelOps
       /\ \/ \E data \in SpecCreateInputs : CreateProductCall(data)
          \/ \E u \in CancelUpdates : UpdateProductCall(u[1], u[2])
          \/ \E id \in CancelDeleteIds : DeleteProductCall(id)
    \/ \E n \in 1..MaxCancelOps : Elapses(n)
    \/ \E op \in pending : Unsubscribe(op)

SpecCancel ==
    Init /\ [][NextCancel]_vars /\ \A n \in 1..MaxCancelOps : WF_vars(Elapses(n))

\* SpecList: the component is initialised, the user refreshes, changes page,
\* edits the filters and deletes; the service answers each subscription with
\* a page, an error or nothing
NextList ==
    \/ ListNgOnInit
    \/ /\ nListCalls < MaxListOps
       /\ \/ ListLoadProducts
          \/ \E page \in ListPages : ListOnPageChange(page)
          \/ \E formValue \in ListFormValues \ {filterForm} : ListValueChanges(formValue)
          \/ ListDebounceElapsed
          \/ \E productId \in ListDeleteIds : ListDeleteProduct(productId)
    \/ \E req \in requests :
        \/ ListLoadProductsNext(req, ListAnswer(req))
        \/ \E error \in ListFailures : ListLoadProductsError(req, error)
        \/ ListLoadProductsTimeout(req)
        \/ ListDeleteProductNext(req)
        \/ \E error \in ListFailures : ListDeleteProductError(req, error)

SpecList == Init /\ [][NextList]_vars

\* SpecIntercept: requests enter the interceptor; the next handler answers
\* or fails each attempt; the caller may unsubscribe; reset() may be called
NextIntercept ==
    \/ /\ nIntercepted < MaxIntercepted
       /\ \E method \in InterceptMethods : Intercept(method)
    \/ \E r \in intercepted :
        \/ InterceptedResponds(r)
        \/ \E error \in HandlerFailures : InterceptedFails(r, error)
        \/ InterceptedRetries(r)
        \/ InterceptedUnsubscribed(r)
    \/ reset

SpecIntercept == Init /\ [][NextIntercept]_vars

\* SpecPair: each call is made on ProductMockService and, with the same
\* arguments, on ProductApiService; the backend answers the request with
\* what the mock returns, and the next call is made when both have answered
NextPair ==
    \/ /\ pending = {}
       /\ inFlight = {}
       /\ nCalls < MaxPairOps
       /\ \/ \E q \in PairQueries : GetProductsCall(q[1], q[2])
          \/ \E data \in PairCreateInputs : CreateProductCall(data)
          \/ \E u \in PairUpdates : UpdateProductCall(u[1], u[2])
          \/ \E id \in PairDeleteIds : DeleteProductCall(id)
    \/ \E op \in pending :
        /\ inFlight = {}
        /\ \/ op.kind = "getProducts"
              /\ ApiGetProductsCall(op.input.filters, op.input.pagination)
           \/ op.kind = "createProduct" /\ ApiCreateProductCall(op.input)
           \/ op.kind = "updateProduct" /\ ApiUpdateProductCall(op.id, op.input)
           \/ op.kind = "deleteProduct" /\ ApiDeleteProductCall(op.id)
    \/ /\ inFlight # {}
       /\ \E op \in pending :
           \/ GetProductsDone(op)
           \/ CreateProductDone(op)
           \/ UpdateProductDone(op)
           \/ DeleteProductDone(op)
    \/ /\ pending = {}
       /\ \E op \in inFlight :
           \/ ApiGetProductsNext(op, last.result)
           \/ ApiCreateProductNext(op, last.result)
           \/ ApiUpdateProductNext(op, last.result)
           \/ ApiDeleteProductNext(op)

SpecPair == Init /\ [][NextPair]_vars

NextApi ==
    \/ /\ nApiCalls < MaxApiOps
       /\ \/ \E q \in ApiQueries : ApiGetProductsCall(q[1], q[2])
          \/ \E id \in ApiIds : ApiGetProductByIdCall(id)
          \/ \E product \in ApiInputs : ApiCreateProductCall(product)
          \/ \E id \in ApiIds, product \in ApiInputs : ApiUpdateProductCall(id, product)
          \/ \E id \in ApiIds : ApiDeleteProductCall(id)
    \/ \E op \in inFlight :
        \/ \E data \in ServerPages : ApiGetProductsNext(op, ServerPage(data))
        \/ ApiGetProductByIdNext(op, ApiProduct(op.id, "a"))
        \/ \E id \in ServerNewIds : ApiCreateProductNext(op, Spread(op.input, [id |-> id]))
        \/ ApiUpdateProductNext(op, Spread(ApiProduct(op.id, "a"), op.input))
        \/ ApiDeleteProductNext(op)
        \/ \E failure \in Failures : ApiAttemptFails(op, failure)
    \/ ClearCache

SpecApi == Init /\ [][NextApi]_vars

====
